---------------------------- MODULE Spec2Model ----------------------------
(***************************************************************************)
(* A model of the BROCO layout editor: the layout tree of every page, the  *)
(* structural operations on it (split, delete-and-collapse, directional    *)
(* merge, keyboard snap, divider drag with the zero-area sweep, edge       *)
(* drag), the page list, and the undo/redo stacks.                         *)
(*                                                                         *)
(* Numbers.  The code keeps sizes as strings such as "58%" and computes on *)
(* IEEE doubles.  The model computes on exact rationals <<n, d>> (d > 0,   *)
(* lowest terms); NaN and a missing size are the two special values below. *)
(***************************************************************************)
EXTENDS Integers, Sequences, FiniteSets, TLC

-----------------------------------------------------------------------------
(* Rational arithmetic *)

Abs(x) == IF x < 0 THEN -x ELSE x

RECURSIVE Gcd(_, _)
Gcd(a, b) == IF b = 0 THEN a ELSE Gcd(b, a % b)

NaN == <<0, -1>>
NoSize == <<0, 0>>

IsNum(r) == r[2] > 0

Norm(n, d) ==
    IF d = 0 THEN NaN
    ELSE LET g == Gcd(Abs(n), Abs(d))
             s == IF d < 0 THEN -1 ELSE 1
         IN  <<(s * n) \div g, (s * d) \div g>>

R(n) == <<n, 1>>

\* Sums, products and comparisons cancel common factors before they multiply,
\* so that the intermediate integers stay small.
RAdd(a, b) ==
    IF IsNum(a) /\ IsNum(b)
    THEN LET g == Gcd(a[2], b[2])
         IN  Norm(a[1] * (b[2] \div g) + b[1] * (a[2] \div g), (a[2] \div g) * b[2])
    ELSE NaN
RNeg(a) == IF IsNum(a) THEN <<-a[1], a[2]>> ELSE NaN
RSub(a, b) == RAdd(a, RNeg(b))
RMul(a, b) ==
    IF IsNum(a) /\ IsNum(b)
    THEN LET g1 == Gcd(Abs(a[1]), b[2])
             g2 == Gcd(Abs(b[1]), a[2])
         IN  Norm((a[1] \div g1) * (b[1] \div g2), (a[2] \div g2) * (b[2] \div g1))
    ELSE NaN
\* JavaScript division; x / 0 with x # 0 is an infinity, which the model
\* does not carry: every division of the modelled code has a numerator that
\* is zero whenever its denominator is (see stopDrag).
RDiv(a, b) ==
    IF IsNum(a) /\ IsNum(b) /\ b[1] # 0
    THEN RMul(a, IF b[1] < 0 THEN <<-b[2], -b[1]>> ELSE <<b[2], b[1]>>)
    ELSE NaN

\* Comparisons are false as soon as one side is NaN, as in JavaScript.
RLe(a, b) == IsNum(a) /\ IsNum(b) /\ RSub(a, b)[1] <= 0
RLt(a, b) == IsNum(a) /\ IsNum(b) /\ RSub(a, b)[1] < 0

\* Math.round: the nearest integer, halves going up.
RRound(a) == IF IsNum(a) THEN R((2 * a[1] + a[2]) \div (2 * a[2])) ELSE NaN

\* parseFloat(node.size): a missing size parses to NaN.
parseFloat(s) == IF IsNum(s) THEN s ELSE NaN

\* The idiom  parseFloat(x) || 50 : NaN and 0 are both falsy.
OrFifty(s) == IF IsNum(s) /\ s[1] # 0 THEN s ELSE R(50)


-----------------------------------------------------------------------------
(* Layout nodes.  A node is a record; null and a missing key are both the  *)
(* value 0 (image, text), "none" (orientation, textAlign) or NoSize.       *)

\* The texts of the model: null, the empty string, and a typed character.
NoText == 0
EmptyText == 1
TypedText == 2

NoNode == [id |-> 0, splitState |-> "none", orientation |-> "none", children |-> <<>>,
           image |-> 0, text |-> 0, textAlign |-> "none", size |-> NoSize]

Leaf(id, image, text, textAlign, size) ==
    [id |-> id, splitState |-> "unsplit", orientation |-> "none", children |-> <<>>,
     image |-> image, text |-> text, textAlign |-> textAlign, size |-> size]

SplitNode(id, orientation, a, b, size) ==
    [id |-> id, splitState |-> "split", orientation |-> orientation, children |-> <<a, b>>,
     image |-> 0, text |-> 0, textAlign |-> "none", size |-> size]

\* A path is the sequence of child positions from a root; NoPath is "not found".
NoPath == <<0>>

RECURSIVE NodeAt(_, _)
NodeAt(node, path) ==
    IF path = <<>> THEN node ELSE NodeAt(node.children[Head(path)], Tail(path))

RECURSIVE SetAt(_, _, _)
SetAt(node, path, new) ==
    IF path = <<>> THEN new
    ELSE [node EXCEPT !.children[Head(path)] = SetAt(node.children[Head(path)], Tail(path), new)]

RECURSIVE Nodes(_)
Nodes(node) ==
    {node} \cup UNION {Nodes(node.children[i]) : i \in 1..Len(node.children)}

RECURSIVE Paths(_)
Paths(node) ==
    {<<>>} \cup UNION {{<<i>> \o p : p \in Paths(node.children[i])} : i \in 1..Len(node.children)}

RECURSIVE NodeCount(_)
NodeCount(node) ==
    IF Len(node.children) = 0 THEN 1
    ELSE 1 + NodeCount(node.children[1]) + NodeCount(node.children[2])

RECURSIVE Ids(_)
Ids(node) == {node.id} \cup UNION {Ids(node.children[i]) : i \in 1..Len(node.children)}

RECURSIVE LeafIds(_)
LeafIds(node) ==
    IF node.splitState = "unsplit" THEN {node.id}
    ELSE UNION {LeafIds(node.children[i]) : i \in 1..Len(node.children)}

RECURSIVE SplitIds(_)
SplitIds(node) ==
    IF node.splitState = "unsplit" THEN {}
    ELSE {node.id} \cup UNION {SplitIds(node.children[i]) : i \in 1..Len(node.children)}

\* _findNodeRecursive: the first node with this id in depth-first order.
RECURSIVE findNodePath(_, _, _)
findNodePath(node, id, i) ==
    IF i = 0 /\ node.id = id THEN <<>>
    ELSE LET k == IF i = 0 THEN 1 ELSE i
         IN  IF k > Len(node.children) THEN NoPath
             ELSE LET sub == findNodePath(node.children[k], id, 0)
                  IN  IF sub # NoPath THEN <<k>> \o sub
                      ELSE findNodePath(node, id, k + 1)

\* findNodeById.  The id index (state.nodeMap) is rebuilt by every render, so at
\* the start of a handler it answers as the depth-first search does.
findNodeById(root, id) ==
    LET p == findNodePath(root, id, 0) IN IF p = NoPath THEN NoNode ELSE NodeAt(root, p)

\* findParentNode: the path of the first node, depth-first, one of whose
\* children has the id.
RECURSIVE findParentPath(_, _, _)
findParentPath(root, childId, i) ==
    IF i > Len(root.children) THEN NoPath
    ELSE IF root.children[i].id = childId THEN <<>>
    ELSE LET sub == findParentPath(root.children[i], childId, 1)
         IN  IF sub # NoPath THEN <<i>> \o sub
             ELSE findParentPath(root, childId, i + 1)

findParentNode(root, childId) ==
    LET p == findParentPath(root, childId, 1) IN IF p = NoPath THEN NoNode ELSE NodeAt(root, p)

RECURSIVE countParallelLeaves(_, _)
countParallelLeaves(node, orientation) ==
    IF node.splitState = "unsplit" THEN 1
    ELSE IF node.orientation = orientation
         THEN IF Len(node.children) = 0 THEN 0
              ELSE countParallelLeaves(node.children[1], orientation)
                   + countParallelLeaves(node.children[2], orientation)
         ELSE 1

\* A collapse that forgets to drop the parent's children when the sibling is a leaf.
CollapsedKeepsChildren(parentNode, siblingNode) ==
    IF siblingNode.splitState = "split"
    THEN [parentNode EXCEPT !.splitState = siblingNode.splitState,
                            !.children = siblingNode.children,
                            !.orientation = siblingNode.orientation]
    ELSE [parentNode EXCEPT !.splitState = siblingNode.splitState,
                            !.image = siblingNode.image,
                            !.text = siblingNode.text,
                            !.textAlign = siblingNode.textAlign,
                            !.orientation = "none"]

\* A collapse that forgets to take the leaf sibling's content.
CollapsedDropsContent(parentNode, siblingNode) ==
    IF siblingNode.splitState = "split"
    THEN [parentNode EXCEPT !.splitState = siblingNode.splitState,
                            !.children = siblingNode.children,
                            !.orientation = siblingNode.orientation]
    ELSE [parentNode EXCEPT !.splitState = siblingNode.splitState,
                            !.children = <<>>,
                            !.orientation = "none"]

\* A collapse that takes the sibling's size as well.
CollapsedTakesSize(parentNode, siblingNode) ==
    IF siblingNode.splitState = "split"
    THEN [parentNode EXCEPT !.splitState = siblingNode.splitState,
                            !.children = siblingNode.children,
                            !.orientation = siblingNode.orientation,
                            !.size = siblingNode.size]
    ELSE [parentNode EXCEPT !.splitState = siblingNode.splitState,
                            !.children = <<>>,
                            !.image = siblingNode.image,
                            !.text = siblingNode.text,
                            !.textAlign = siblingNode.textAlign,
                            !.orientation = "none",
                            !.size = siblingNode.size]

\* The parent after deleteNodeFromTree has merged the sibling into it.
Collapsed(parentNode, siblingNode) ==
    IF siblingNode.splitState = "split"
    THEN [parentNode EXCEPT !.splitState = siblingNode.splitState,
                            !.children = siblingNode.children,
                            !.orientation = siblingNode.orientation]
    ELSE [parentNode EXCEPT !.splitState = siblingNode.splitState,
                            !.children = <<>>,
                            !.image = siblingNode.image,
                            !.text = siblingNode.text,
                            !.textAlign = siblingNode.textAlign,
                            !.orientation = "none"]

\* A deleteNodeFromTree that, given the root's own id, empties the root and
\* returns it.
deleteNodeFromTreeEmptiesRoot(root, nodeId) ==
    LET pp == findParentPath(root, nodeId, 1)
    IN  IF pp = NoPath
        THEN IF nodeId = root.id
             THEN [tree |-> [root EXCEPT !.splitState = "unsplit", !.children = <<>>,
                                         !.image = 0, !.text = 0, !.orientation = "none"],
                   focus |-> root.id]
             ELSE [tree |-> root, focus |-> 0]
        ELSE LET parentNode == NodeAt(root, pp)
                 sibs == {i \in 1..Len(parentNode.children) : parentNode.children[i].id # nodeId}
             IN  IF sibs = {} THEN [tree |-> root, focus |-> 0]
                 ELSE LET siblingNode == parentNode.children[CHOOSE i \in sibs : \A j \in sibs : i <= j]
                      IN  [tree |-> SetAt(root, pp, Collapsed(parentNode, siblingNode)),
                           focus |-> parentNode.id]

\* deleteNodeFromTree: [tree |-> the tree afterwards, focus |-> the id of the
\* returned parent, 0 for null].
deleteNodeFromTree(root, nodeId) ==
    LET pp == findParentPath(root, nodeId, 1)
    IN  IF pp = NoPath THEN [tree |-> root, focus |-> 0]
        ELSE LET parentNode == NodeAt(root, pp)
                 sibs == {i \in 1..Len(parentNode.children) : parentNode.children[i].id # nodeId}
             IN  IF sibs = {} THEN [tree |-> root, focus |-> 0]
                 ELSE LET siblingNode == parentNode.children[CHOOSE i \in sibs : \A j \in sibs : i <= j]
                      IN  [tree |-> SetAt(root, pp, Collapsed(parentNode, siblingNode)),
                           focus |-> parentNode.id]

isDividerMergeable(parentNode) ==
    parentNode # NoNode /\ parentNode.splitState = "split" /\ Len(parentNode.children) = 2

\* The test  child.id === focusedNodeId || (child.children && findNodeById(child, id)).
HoldsFocus(child, focusedNodeId) ==
    \/ child.id = focusedNodeId
    \/ Len(child.children) > 0 /\ findNodeById(child, focusedNodeId) # NoNode

\* A merge whose case B lets the parent take the expander's size as well.
MergeTakesExpanderSize(parentNode, expanderIsA, focusedNodeId, onIndex) ==
    LET childA == parentNode.children[1]
        childB == parentNode.children[2]
        expander == IF expanderIsA THEN childA ELSE childB
        neighbor == IF expanderIsA THEN childB ELSE childA
    IN  IF neighbor.splitState = "split" /\ neighbor.orientation = parentNode.orientation
        THEN LET consumed == IF expanderIsA THEN neighbor.children[1] ELSE neighbor.children[2]
                 remaining == IF expanderIsA THEN neighbor.children[2] ELSE neighbor.children[1]
                 newExpanderSize == RAdd(OrFifty(parseFloat(expander.size)),
                                         RDiv(RMul(OrFifty(parseFloat(neighbor.size)),
                                                   OrFifty(parseFloat(consumed.size))), R(100)))
                 e2 == [expander EXCEPT !.size = newExpanderSize]
                 r2 == [remaining EXCEPT !.size = RSub(R(100), newExpanderSize)]
             IN  [node |-> [parentNode EXCEPT !.children = IF expanderIsA THEN <<e2, r2>> ELSE <<r2, e2>>],
                  focus |-> expander.id, live |-> TRUE]
        ELSE [node |-> [expander EXCEPT !.id = parentNode.id],
              focus |-> parentNode.id, live |-> ~onIndex]

\* mergeNodesInTree, once the expander is known (expanderIsA: the first child
\* expands).  [node |-> the parent afterwards, focus |-> the id of the returned
\* node, live |-> whether the returned object is part of the tree afterwards].
\* onIndex: the parent is the page root and the id index still holds the
\* focused id, so that findNodeById(parentNode, id) answers from the index.
MergeWithExpander(parentNode, expanderIsA, focusedNodeId, onIndex) ==
    LET childA == parentNode.children[1]
        childB == parentNode.children[2]
        expander == IF expanderIsA THEN childA ELSE childB
        neighbor == IF expanderIsA THEN childB ELSE childA
    IN  IF neighbor.splitState = "split" /\ neighbor.orientation = parentNode.orientation
        THEN \* Case A: consume the touching sub-child of the neighbor
             LET consumed == IF expanderIsA THEN neighbor.children[1] ELSE neighbor.children[2]
                 remaining == IF expanderIsA THEN neighbor.children[2] ELSE neighbor.children[1]
                 expanderSize == OrFifty(parseFloat(expander.size))
                 neighborSize == OrFifty(parseFloat(neighbor.size))
                 consumedRelSize == OrFifty(parseFloat(consumed.size))
                 newExpanderSize == RAdd(expanderSize, RDiv(RMul(neighborSize, consumedRelSize), R(100)))
                 newRemainingSize == RSub(R(100), newExpanderSize)
                 e2 == [expander EXCEPT !.size = newExpanderSize]
                 r2 == [remaining EXCEPT !.size = newRemainingSize]
             IN  [node |-> [parentNode EXCEPT !.children = IF expanderIsA THEN <<e2, r2>> ELSE <<r2, e2>>],
                  focus |-> IF findNodeById(expander, focusedNodeId) # NoNode
                            THEN focusedNodeId ELSE expander.id,
                  live |-> TRUE]
        ELSE \* Case B: the parent takes every key of the expander but id and size
             LET promoted == [expander EXCEPT !.id = parentNode.id, !.size = parentNode.size]
             IN  [node |-> promoted,
                  focus |-> IF onIndex \/ findNodeById(promoted, focusedNodeId) # NoNode
                            THEN focusedNodeId ELSE parentNode.id,
                  live |-> ~onIndex]

mergeNodesInTree(parentNode, focusedNodeId, onIndex) ==
    LET isExpanderA == HoldsFocus(parentNode.children[1], focusedNodeId)
        isExpanderB == HoldsFocus(parentNode.children[2], focusedNodeId)
    IN  IF ~isExpanderA /\ ~isExpanderB
        THEN MergeWithExpander(parentNode, TRUE, parentNode.children[1].id, onIndex)
        ELSE MergeWithExpander(parentNode, isExpanderA, focusedNodeId, onIndex)

-----------------------------------------------------------------------------
(* Program constants and the bounds of the model *)

\* MAX_HISTORY is 50 in the code; the model scales it down so that the
\* eviction of the oldest snapshot happens within the explored runs.
MAX_HISTORY == 2
MIN_AREA_PERCENT == 1

MaxId == 7             \* no handler allocates an id beyond this
MaxPages == 3          \* no handler grows the page list beyond this
MaxSteps == 3          \* handlers run in one behaviour of Spec
MaxHistorySteps == 6   \* handlers run in one behaviour of SpecHistory

-----------------------------------------------------------------------------
(* State *)

VARIABLES
    pages,             \* state.pages: the root node of every page
    currentPageIndex,  \* state.currentPageIndex (0-based)
    currentId,         \* state.currentId
    undoStack,         \* history: snapshots to undo to, oldest first
    redoStack,         \* history: snapshots to redo to
    activeDivider,     \* state.activeDivider: the dragged divider's ids, or NoDivider
    dragStart,         \* state.startSizeA and state.availableSpace of the session
    flexGrow,          \* style.flexGrow of divider.rectA and divider.rectB
    pointerDown,       \* the pointer that started the drag session is still held
    lastSnapId,        \* state.lastSnapId: the snap point the last Shift move hit
    nodeMap,           \* state.nodeMap: the ids the index of the active page holds
    boundsCache,       \* keyboard.js rectBoundsCache: the layout its bounds were read from
    probe,             \* the arguments of a function called on its own
    pending,           \* cut and paste calls suspended at their clipboard await
    steps,             \* handlers that may still run
    last,              \* what the last handler did (read by the properties only)
    hist               \* what the history was asked to do (read by the properties only)

vars == <<pages, currentPageIndex, currentId, undoStack, redoStack,
          activeDivider, dragStart, flexGrow, pointerDown, lastSnapId, nodeMap, boundsCache, probe,
          pending, steps, last, hist>>

NoDivider == [parentId |-> 0, rectAId |-> 0, rectBId |-> 0]

\* rectBoundsCache = null: no bounds are cached.
NoCache == NoNode

\* A snap id is <<1, n, d>> for `divider-${center}` and <<2, n, d>> for
\* `prop-${value}`, n / d being the number; state.lastSnapId = null is NoSnapId.
NoSnapId == <<0, 0, 0>>

\* last: the handler that ran last (op), the id it was aimed at (target), the
\* node it rewrote as it was before (pre), what the handler was given,
\* whether bounds were cached when it began (cached), and the snap point a
\* drag move hit (snap).
NoOp ==
    [op |-> "none", target |-> 0, pre |-> NoNode, arg |-> 0, flag |-> FALSE, fresh |-> FALSE,
     cached |-> FALSE, snap |-> NoSnapId]

Op(op, target, pre, flag) ==
    [op |-> op, target |-> target, pre |-> pre, arg |-> 0, flag |-> flag, fresh |-> FALSE,
     cached |-> boundsCache # NoCache, snap |-> NoSnapId]

getCurrentPage == pages[currentPageIndex + 1]

\* A syncNodeMap that leaves the page root out of the index.
syncNodeMapSkipsRoot(page) == Ids(page) \ {page.id}

\* syncNodeMap: the index is cleared and every node reachable from the page
\* root is set.
syncNodeMap(page) == Ids(page)

\* A 'layoutUpdated' listener that leaves the cached bounds in place.
invalidateLayoutCacheKeeps == UNCHANGED boundsCache

\* invalidateLayoutCache, the listener of 'layoutUpdated': the cached bounds
\* are dropped.
invalidateLayoutCache == boundsCache' = NoCache

\* renderAndRestoreFocus, at the end of a handler: the index is rebuilt for
\* the page that is active then and 'layoutUpdated' is announced.
Renders == nodeMap' = syncNodeMap(getCurrentPage') /\ invalidateLayoutCache

\* A handler that does not render leaves the index and the cached bounds as
\* they are.
KeepIndex == UNCHANGED <<nodeMap, boundsCache>>

\* The node of this id on whichever page holds it, NoNode when none does.
findNodeInPages(id) ==
    LET holders == {i \in 1..Len(pages) : findNodePath(pages[i], id, 0) # NoPath}
    IN  IF holders = {} THEN NoNode
        ELSE LET i == CHOOSE k \in holders : TRUE
             IN  NodeAt(pages[i], findNodePath(pages[i], id, 0))

\* The page list with the active page's tree replaced.
WithPage(tree) == [pages EXCEPT ![currentPageIndex + 1] = tree]

initialLayout == Leaf(1, 0, 0, "none", NoSize)

\* A snapshot that holds the page list and the counter, not the active index.
SnapshotOfPagesOnly == [pages |-> pages, currentPageIndex |-> 0, currentId |-> currentId]

\* What a snapshot holds: the serialised document and the id counter.
Snapshot == [pages |-> pages, currentPageIndex |-> currentPageIndex, currentId |-> currentId]

NoSnapshot == [pages |-> <<>>, currentPageIndex |-> 0, currentId |-> 0]

\* hist: the documents saved by the saveState calls made since the last undo
\* or redo (saved), the undo calls made since the last saveState or redo
\* (undos), the documents that were live when each undo not yet redone took
\* effect (undone), and the document the last redo had to bring back (expect).
\* cleared: the undone documents the last saveState discarded, 0 once an undo
\* has followed it.
NoHist == [saved |-> <<>>, undos |-> 0, undone |-> <<>>, expect |-> NoSnapshot,
           cleared |-> 0]

\* No function has been called on its own.
NoProbe == [fn |-> "none"]

\* The program after the modules have loaded.
InitProgram(budget) ==
    /\ pages = <<initialLayout>>
    /\ currentPageIndex = 0
    /\ currentId = 1
    /\ undoStack = <<>>
    /\ redoStack = <<>>
    /\ activeDivider = NoDivider
    /\ dragStart = [startSizeA |-> R(0), availableSpace |-> R(0),
                    cachedDividers |-> <<>>, cachedSnapPoints |-> {}]
    /\ lastSnapId = NoSnapId
    /\ flexGrow = <<R(0), R(0)>>
    /\ pointerDown = FALSE
    /\ nodeMap = syncNodeMap(initialLayout)
    /\ boundsCache = NoCache
    /\ pending = <<>>
    /\ steps = budget
    /\ last = NoOp
    /\ hist = NoHist

InitWith(budget) == InitProgram(budget) /\ probe = NoProbe

\* A function called on its own leaves the program as it is.
ProgramUnchanged ==
    UNCHANGED <<pages, currentPageIndex, currentId, undoStack, redoStack, activeDivider,
                dragStart, flexGrow, pointerDown, lastSnapId, nodeMap, boundsCache, pending, steps,
                last, hist>>

Init == InitWith(MaxSteps)

-----------------------------------------------------------------------------
(* History *)

Last(s) == s[Len(s)]
Front(s) == SubSeq(s, 1, Len(s) - 1)

\* A saveState that evicts the newest snapshot instead of the oldest.
saveStateEvictsNewest ==
    LET pushed == Append(undoStack, Snapshot)
    IN  IF Len(pushed) > MAX_HISTORY THEN Front(pushed) ELSE pushed

\* A saveState that never evicts.
saveStateNeverEvicts == Append(undoStack, Snapshot)

\* saveState: the undo stack after the push and the eviction of the oldest.
saveState ==
    LET pushed == Append(undoStack, Snapshot)
    IN  IF Len(pushed) > MAX_HISTORY THEN Tail(pushed) ELSE pushed

\* A saveState that leaves the redo stack as it is.
SaveStateKeepsRedo ==
    /\ undoStack' = saveState
    /\ UNCHANGED redoStack
    /\ hist' = [saved |-> IF hist.undos = 0 THEN Append(hist.saved, Snapshot) ELSE <<Snapshot>>,
                undos |-> 0, undone |-> <<>>, expect |-> NoSnapshot,
                cleared |-> Len(redoStack)]

\* A handler's call of saveState.
SaveState ==
    /\ undoStack' = saveState
    /\ redoStack' = <<>>
    /\ hist' = [saved |-> IF hist.undos = 0 THEN Append(hist.saved, Snapshot) ELSE <<Snapshot>>,
                undos |-> 0, undone |-> <<>>, expect |-> NoSnapshot,
                cleared |-> Len(redoStack)]

NoSave == UNCHANGED <<undoStack, redoStack, hist>>

\* The live document becomes this one.
Becomes(document) ==
    /\ pages' = document.pages
    /\ currentPageIndex' = document.currentPageIndex
    /\ currentId' = document.currentId

\* restoreState: the snapshot becomes the live document.
restoreState(snapshot) == Becomes(snapshot)

Tick == steps > 0 /\ steps' = steps - 1

\* The release of a held pointer is always delivered: it takes a step of the
\* budget while there is one.
Release == steps' = IF steps > 0 THEN steps - 1 ELSE 0

DragUnchanged == UNCHANGED <<activeDivider, dragStart, flexGrow, pointerDown, lastSnapId>>

\* A suspended cut or paste holds the node object it looked up before its
\* await: [call, id, found |-> the node as it was looked up, held |-> whether
\* that object is still the document's node of this id].  The handler leaves
\* every such object where it is.
KeepPending == UNCHANGED pending

\* The handler replaces the objects of these ids by copies, or replaces the
\* whole document: the suspended calls that hold one of them will write to an
\* object that is no longer part of the document.
Detaches(ids) ==
    pending' = [i \in 1..Len(pending) |->
                   IF pending[i].id \in ids THEN [pending[i] EXCEPT !.held = FALSE]
                   ELSE pending[i]]

DetachesAll == Detaches({pending[i].id : i \in 1..Len(pending)})

\* An undo that, on an empty stack, still discards the redo stack.
undoClearsRedoOnEmpty ==
    /\ Tick
    /\ UNCHANGED probe
    /\ DragUnchanged
    /\ IF undoStack = <<>>
       THEN /\ UNCHANGED <<pages, currentPageIndex, currentId, undoStack>>
            /\ redoStack' = <<>>
            /\ KeepPending
            /\ hist' = [hist EXCEPT !.undos = @ + 1, !.cleared = 0]
            /\ KeepIndex
            /\ last' = Op("undo", 0, NoNode, FALSE)
       ELSE /\ redoStack' = Append(redoStack, Snapshot)
            /\ undoStack' = Front(undoStack)
            /\ restoreState(Last(undoStack))
            /\ DetachesAll
            /\ hist' = [hist EXCEPT !.undos = @ + 1, !.undone = Append(@, Snapshot),
                                    !.cleared = 0]
            /\ Renders
            /\ last' = Op("undo", 0, NoNode, TRUE)

\* undo (Ctrl+Z); on an empty stack the call returns at once.
undo ==
    /\ Tick
    /\ UNCHANGED probe
    /\ DragUnchanged
    /\ IF undoStack = <<>>
       THEN /\ UNCHANGED <<pages, currentPageIndex, currentId, undoStack, redoStack>>
            /\ KeepPending
            /\ hist' = [hist EXCEPT !.undos = @ + 1, !.cleared = 0]
            /\ KeepIndex
            /\ last' = Op("undo", 0, NoNode, FALSE)
       ELSE /\ redoStack' = Append(redoStack, Snapshot)
            /\ undoStack' = Front(undoStack)
            /\ restoreState(Last(undoStack))
            /\ DetachesAll
            /\ hist' = [hist EXCEPT !.undos = @ + 1, !.undone = Append(@, Snapshot),
                                    !.cleared = 0]
            /\ Renders
            /\ last' = Op("undo", 0, NoNode, TRUE)

\* A redo that takes the oldest undone snapshot (shift) instead of the newest (pop).
redoTakesOldest ==
    /\ Tick
    /\ UNCHANGED probe
    /\ DragUnchanged
    /\ IF redoStack = <<>>
       THEN /\ UNCHANGED <<pages, currentPageIndex, currentId, undoStack, redoStack>>
            /\ KeepPending
            /\ hist' = [hist EXCEPT !.saved = <<>>, !.undos = 0]
            /\ KeepIndex
            /\ last' = Op("redo", 0, NoNode, FALSE)
       ELSE /\ undoStack' = Append(undoStack, Snapshot)
            /\ redoStack' = Tail(redoStack)
            /\ restoreState(Head(redoStack))
            /\ DetachesAll
            /\ hist' = [saved |-> <<>>, undos |-> 0,
                        undone |-> Front(hist.undone), expect |-> Last(hist.undone),
                        cleared |-> hist.cleared]
            /\ Renders
            /\ last' = Op("redo", 0, NoNode, TRUE)

\* redo (Ctrl+Y); on an empty stack the call returns at once.
redo ==
    /\ Tick
    /\ UNCHANGED probe
    /\ DragUnchanged
    /\ IF redoStack = <<>>
       THEN /\ UNCHANGED <<pages, currentPageIndex, currentId, undoStack, redoStack>>
            /\ KeepPending
            /\ hist' = [hist EXCEPT !.saved = <<>>, !.undos = 0]
            /\ KeepIndex
            /\ last' = Op("redo", 0, NoNode, FALSE)
       ELSE /\ undoStack' = Append(undoStack, Snapshot)
            /\ redoStack' = Front(redoStack)
            /\ restoreState(Last(redoStack))
            /\ DetachesAll
            /\ hist' = [saved |-> <<>>, undos |-> 0,
                        undone |-> Front(hist.undone), expect |-> Last(hist.undone),
                        cleared |-> hist.cleared]
            /\ Renders
            /\ last' = Op("redo", 0, NoNode, TRUE)

-----------------------------------------------------------------------------
(* Click and keyboard handlers of layout.js *)

\* A split that copies the content to both children.
SplitOfCopiesContent(node, orientation, ctrlKey, idA, idB) ==
    LET filled(id) == Leaf(id, node.image, node.text,
                           IF node.text # 0 THEN node.textAlign ELSE "none", R(50))
    IN  [node EXCEPT !.splitState = "split",
                     !.orientation = orientation,
                     !.children = <<filled(idA), filled(idB)>>,
                     !.image = 0,
                     !.text = 0,
                     !.textAlign = IF node.text # 0 THEN "none" ELSE node.textAlign]

\* The two leaves handleSplitClick creates, the content migrated to one of them.
SplitOf(node, orientation, ctrlKey, idA, idB) ==
    LET blank(id) == Leaf(id, 0, 0, "none", R(50))
        filled(id) == Leaf(id, node.image, node.text,
                           IF node.text # 0 THEN node.textAlign ELSE "none", R(50))
    IN  [node EXCEPT !.splitState = "split",
                     !.orientation = orientation,
                     !.children = IF ctrlKey THEN <<blank(idA), filled(idB)>>
                                  ELSE <<filled(idA), blank(idB)>>,
                     !.image = 0,
                     !.text = 0,
                     !.textAlign = IF node.text # 0 THEN "none" ELSE node.textAlign]

\* handleSplitClick on the rectangle rectId.  defaultIsVertical is the
\* rendered rectangle being at least as wide as high.
handleSplitClick(rectId, ctrlKey, shiftKey, altKey, defaultIsVertical) ==
    /\ Tick
    /\ UNCHANGED probe
    /\ \E page \in {getCurrentPage} : \E path \in {findNodePath(page, rectId, 0)} :
       /\ path # NoPath
       /\ \E node \in {NodeAt(page, path)} :
           /\ node.splitState # "split"
           /\ DragUnchanged
           /\ KeepPending
           /\ UNCHANGED currentPageIndex
           /\ IF ctrlKey /\ ~shiftKey
              THEN \* Ctrl + Click: delete the content, or the rectangle when it is empty
                   /\ SaveState
                   /\ UNCHANGED currentId
                   /\ IF node.image # 0 \/ node.text # 0
                      THEN /\ pages' = WithPage(SetAt(page, path, [node EXCEPT !.image = 0, !.text = 0]))
                           /\ Renders
                           /\ last' = Op("clear", rectId, node, FALSE)
                      ELSE \E parentNode \in {findParentNode(page, rectId)} :
                           /\ pages' = WithPage(deleteNodeFromTree(page, rectId).tree)
                           /\ Renders
                           /\ last' = [Op("delete", rectId, parentNode, FALSE)
                                           EXCEPT !.fresh = last.op = "split" /\ last.target = parentNode.id]
              ELSE IF node.image # 0 /\ ~shiftKey /\ ~altKey
              THEN \* toggle object-fit (the fit mode is not part of the model)
                   /\ SaveState
                   /\ UNCHANGED <<currentId, pages>>
                   /\ Renders
                   /\ last' = Op("fit", rectId, node, FALSE)
              ELSE /\ ~(node.text # 0 /\ ~shiftKey /\ ~altKey)
                   /\ currentId + 2 <= MaxId
                   /\ SaveState
                   /\ currentId' = currentId + 2
                   /\ pages' = WithPage(SetAt(page, path,
                                   SplitOf(node,
                                           IF altKey THEN (IF defaultIsVertical THEN "horizontal" ELSE "vertical")
                                           ELSE (IF defaultIsVertical THEN "vertical" ELSE "horizontal"),
                                           ctrlKey, currentId + 1, currentId + 2)))
                   /\ Renders
                   /\ last' = Op("split", rectId, node, ctrlKey)

\* createTextInRect (Enter, or typing a character, on the focused rectangle).
createTextInRect(rectId, initialText) ==
    /\ Tick
    /\ UNCHANGED probe
    /\ \E page \in {getCurrentPage} : \E path \in {findNodePath(page, rectId, 0)} :
       /\ path # NoPath
       /\ \E node \in {NodeAt(page, path)} :
           /\ node.splitState # "split"
           /\ node.image = 0
           /\ DragUnchanged
           /\ KeepPending
           /\ UNCHANGED <<currentPageIndex, currentId>>
           /\ SaveState
           /\ pages' = WithPage(SetAt(page, path,
                           [node EXCEPT !.text = IF initialText # 0 THEN initialText
                                                 ELSE IF node.text = 0 THEN 1 ELSE node.text]))
           /\ Renders
           /\ last' = Op("text", rectId, node, FALSE)

IsForward(direction) == direction \in {"ArrowRight", "ArrowDown"}

OrientationOf(direction) ==
    IF direction \in {"ArrowLeft", "ArrowRight"} THEN "vertical" ELSE "horizontal"

\* The ancestor walk shared by findMergeableParent and snapDivider: the path
\* of the nearest ancestor of searchNodeId that is split along the direction's
\* axis with searchNodeId on the side that grows in that direction.
RECURSIVE findDirectionalParent(_, _, _, _)
findDirectionalParent(page, searchNodeId, direction, needMergeable) ==
    LET pp == findParentPath(page, searchNodeId, 1)
    IN  IF pp = NoPath THEN NoPath
        ELSE LET parent == NodeAt(page, pp)
                 isFirst == HoldsFocus(parent.children[1], searchNodeId)
                 isSecond == HoldsFocus(parent.children[2], searchNodeId)
             IN  IF /\ parent.orientation = OrientationOf(direction)
                    /\ \/ isFirst /\ IsForward(direction)
                       \/ isSecond /\ ~IsForward(direction)
                    /\ needMergeable => isDividerMergeable(parent)
                 THEN pp
                 ELSE findDirectionalParent(page, parent.id, direction, needMergeable)

findMergeableParent(page, focusedId, direction) ==
    findDirectionalParent(page, focusedId, direction, TRUE)

\* Case B of mergeNodesInTree copies the expander's keys to the parent, its
\* children through JSON: the ids of the objects that leave the tree while
\* copies of them stay.
MergeCloned(parentNode, focusedNodeId) ==
    LET inA == HoldsFocus(parentNode.children[1], focusedNodeId)
        inB == HoldsFocus(parentNode.children[2], focusedNodeId)
        expander == IF inA \/ ~inB THEN parentNode.children[1] ELSE parentNode.children[2]
        neighbor == IF inA \/ ~inB THEN parentNode.children[2] ELSE parentNode.children[1]
    IN  IF neighbor.splitState = "split" /\ neighbor.orientation = parentNode.orientation
        THEN {}
        ELSE Ids(expander)

\* The record last keeps of a merge: the parent before, the initiator, and
\* whether the first child was the expander.
MergeOp(parentNode, focusedNodeId) ==
    LET inA == HoldsFocus(parentNode.children[1], focusedNodeId)
        inB == HoldsFocus(parentNode.children[2], focusedNodeId)
    IN  [Op("merge", parentNode.id, parentNode, inA \/ ~inB) EXCEPT !.arg = focusedNodeId]

\* Ctrl + Arrow on the focused leaf: findMergeableParent, then mergeNodes.
mergeNodes(focusedId, direction) ==
    /\ Tick
    /\ UNCHANGED probe
    /\ \E page \in {getCurrentPage} : \E pp \in {findMergeableParent(page, focusedId, direction)} :
       /\ focusedId \in LeafIds(page)
       /\ pp # NoPath
       /\ \E parentNode \in {NodeAt(page, pp)} :
           /\ DragUnchanged
           /\ Detaches(MergeCloned(parentNode, focusedId))
           /\ UNCHANGED <<currentPageIndex, currentId>>
           /\ SaveState
           /\ pages' = WithPage(SetAt(page, pp, mergeNodesInTree(parentNode, focusedId, pp = <<>>).node))
           /\ Renders
           /\ last' = MergeOp(parentNode, focusedId)

\* Ctrl + Click on the divider of parentId; lastFocusedRectId is
\* state.lastFocusedRectId, 0 for null.
handleDividerMerge(parentId, lastFocusedRectId) ==
    /\ Tick
    /\ UNCHANGED probe
    /\ \E page \in {getCurrentPage} : \E pp \in {findNodePath(page, parentId, 0)} :
       /\ pp # NoPath
       /\ \E parentNode \in {NodeAt(page, pp)} :
           /\ isDividerMergeable(parentNode)
           /\ DragUnchanged
           /\ Detaches(MergeCloned(parentNode, lastFocusedRectId))
           /\ UNCHANGED <<currentPageIndex, currentId>>
           /\ SaveState
           /\ pages' = WithPage(SetAt(page, pp,
                           mergeNodesInTree(parentNode, lastFocusedRectId, pp = <<>>).node))
           /\ Renders
           /\ last' = MergeOp(parentNode, lastFocusedRectId)

-----------------------------------------------------------------------------
(* The drag controller (dragHandler.js) *)

AvailableSpaces == {0, 200}        \* pixel extents of the two rectangles together
Deltas == {-100, -97, -20, 100}    \* pointer displacements, in pixels

RECURSIVE collectAllNodeSizes(_)
collectAllNodeSizes(node) ==
    (IF IsNum(node.size) THEN {parseFloat(node.size)} ELSE {})
    \cup UNION {collectAllNodeSizes(node.children[i]) : i \in 1..Len(node.children)}

\* calculateDynamicSnaps: the snap points startDrag caches for the divider of
\* parentNode: 50, the leaf-count fractions, and every node size of the page
\* with its complement.
calculateDynamicSnaps(page, parentNode) ==
    LET orientation == parentNode.orientation
        totalCount == countParallelLeaves(parentNode.children[1], orientation)
                      + countParallelLeaves(parentNode.children[2], orientation)
        allSizes == collectAllNodeSizes(page)
    IN  {R(50)}
        \cup {RDiv(R(100 * i), R(totalCount)) : i \in 1..(totalCount - 1)}
        \cup allSizes
        \cup {RSub(R(100), sz) : sz \in allSizes}

\* What the renderer shows for a node: its flex-grow is its size.
RenderedFlexGrow(node) == parseFloat(node.size)

\* The pixel extent of the first rectangle when the two share availableSpace.
RenderedSizeA(nodeA, availableSpace) ==
    IF IsNum(nodeA.size) THEN RDiv(RMul(availableSpace, nodeA.size), R(100))
    ELSE RDiv(availableSpace, R(2))

\* startDrag with the divider of the split node parentId (mousedown or
\* touchstart on it: main.js passes the divider, so no snapshot is taken).
\* cachedDividers is what startDrag caches of the other dividers of the same
\* orientation: for each, in document order, where the first rectangle would
\* end were the dragged divider centred on it (center - contentOrigin -
\* dividerSize / 2, in pixels).  state.lastSnapId is not touched.
BeginDrag(page, parentId, availableSpace, cachedDividers) ==
    LET parentNode == findNodeById(page, parentId)
        nodeA == parentNode.children[1]
        nodeB == parentNode.children[2]
    IN  /\ activeDivider' = [parentId |-> parentId, rectAId |-> nodeA.id, rectBId |-> nodeB.id]
        /\ dragStart' = [startSizeA |-> RenderedSizeA(nodeA, R(availableSpace)),
                         availableSpace |-> R(availableSpace),
                         cachedDividers |-> cachedDividers,
                         cachedSnapPoints |-> calculateDynamicSnaps(page, parentNode)]
        /\ flexGrow' = <<RenderedFlexGrow(nodeA), RenderedFlexGrow(nodeB)>>
        /\ pointerDown' = TRUE
        /\ UNCHANGED lastSnapId

\* Another divider of the same orientation lies on the page.
HasDividerBeside(page, parentNode) ==
    \E n \in Nodes(page) :
        n.splitState = "split" /\ n.orientation = parentNode.orientation /\ n.id # parentNode.id

startDrag(parentId, availableSpace, cachedDividers) ==
    /\ Tick
    /\ UNCHANGED probe
    /\ \E parentNode \in {findNodeById(getCurrentPage, parentId)} :
       /\ parentNode # NoNode
       /\ parentNode.splitState = "split"
       /\ cachedDividers # <<>> => HasDividerBeside(getCurrentPage, parentNode)
       /\ BeginDrag(getCurrentPage, parentId, availableSpace, cachedDividers)
       /\ NoSave
       /\ KeepPending
       /\ UNCHANGED <<pages, currentPageIndex, currentId>>
       /\ KeepIndex
       /\ last' = Op("startDrag", parentId, parentNode, FALSE)

\* startEdgeDrag: wrap the page root in a new split, then drag its divider.
EdgeRoot(oldLayout, edge, rootId, rectId) ==
    LET newRect == Leaf(rectId, 0, 0, "none", R(0))
        oldLayoutNode == [oldLayout EXCEPT !.size = R(100)]
    IN  SplitNode(rootId, IF edge \in {"left", "right"} THEN "vertical" ELSE "horizontal",
                  IF edge \in {"left", "top"} THEN newRect ELSE oldLayoutNode,
                  IF edge \in {"left", "top"} THEN oldLayoutNode ELSE newRect,
                  NoSize)

startEdgeDrag(edge, availableSpace) ==
    /\ Tick
    /\ UNCHANGED probe
    /\ \E newRoot \in {EdgeRoot(getCurrentPage, edge, currentId + 1, currentId + 2)} :
       /\ currentId + 2 <= MaxId
       /\ SaveState
       /\ currentId' = currentId + 2
       /\ pages' = WithPage(newRoot)
       /\ UNCHANGED currentPageIndex
       /\ BeginDrag(newRoot, newRoot.id, availableSpace, <<>>)
       /\ Detaches({getCurrentPage.id})
       /\ nodeMap' = syncNodeMap(newRoot)
       /\ invalidateLayoutCache
       /\ last' = [Op("startEdgeDrag", newRoot.id, getCurrentPage, FALSE) EXCEPT !.arg = currentId + 2]

\* The two flex-grow values onDrag sets when the pointer has moved by delta.
DraggedSizes(delta) ==
    LET newSizeA == RAdd(dragStart.startSizeA, R(delta))
        newSizeB == RSub(dragStart.availableSpace, newSizeA)
    IN  IF RLt(newSizeA, R(0)) THEN <<R(0), RRound(dragStart.availableSpace)>>
        ELSE IF RLt(newSizeB, R(0)) THEN <<RRound(dragStart.availableSpace), R(0)>>
        ELSE <<RRound(newSizeA), RRound(newSizeB)>>

SNAP_THRESHOLD == 20

\* Math.abs(a - b) < SNAP_THRESHOLD
WithinThreshold(a, b) ==
    RLt(RSub(a, b), R(SNAP_THRESHOLD)) /\ RLt(RSub(b, a), R(SNAP_THRESHOLD))

NoSnap == [size |-> NaN, id |-> NoSnapId]

\* The first cached divider within the threshold of where the first rectangle
\* would end, 0 when there is none.
RECURSIVE firstDividerWithin(_, _, _)
firstDividerWithin(cachedDividers, i, newSizeA) ==
    IF i > Len(cachedDividers) THEN 0
    ELSE IF WithinThreshold(newSizeA, cachedDividers[i]) THEN i
    ELSE firstDividerWithin(cachedDividers, i + 1, newSizeA)

\* The snap points a Shift move may take when the first rectangle would end at
\* newSizeA: [size |-> where it ends once snapped, id |-> the snap id].  The
\* cached dividers are scanned first, then the cached percentages, and the
\* first one within SNAP_THRESHOLD is taken: 50 heads the percentages, the
\* others follow in the order the page's sizes were collected, here any.
SnapsOf(newSizeA) ==
    LET k == firstDividerWithin(dragStart.cachedDividers, 1, newSizeA)
        targetOf(v) == RDiv(RMul(v, dragStart.availableSpace), R(100))
        near == {v \in dragStart.cachedSnapPoints : WithinThreshold(newSizeA, targetOf(v))}
        prop(v) == [size |-> targetOf(v), id |-> <<2, v[1], v[2]>>]
    IN  IF k # 0
        THEN {[size |-> dragStart.cachedDividers[k],
               id |-> <<1, dragStart.cachedDividers[k][1], dragStart.cachedDividers[k][2]>>]}
        ELSE IF R(50) \in near THEN {prop(R(50))}
        ELSE IF near # {} THEN {prop(v) : v \in near}
        ELSE {NoSnap}

\* style.flexGrow = value: a negative number is not a flex-grow value and
\* leaves the style as it is.
Styled(sizes) ==
    <<IF RLt(sizes[1], R(0)) THEN flexGrow[1] ELSE sizes[1],
      IF RLt(sizes[2], R(0)) THEN flexGrow[2] ELSE sizes[2]>>

\* onDrag: the pointer has moved by delta pixels along the drag axis, with or
\* without Shift held.  last.flag tells that the move raised the snap toast
\* and last.snap is the snap id it hit.
onDrag(delta, shiftKey) ==
    /\ activeDivider # NoDivider
    /\ Tick
    /\ UNCHANGED probe
    /\ \E snap \in (IF shiftKey THEN SnapsOf(DraggedSizes(delta)[1]) ELSE {NoSnap}) :
       /\ flexGrow' = IF snap = NoSnap THEN DraggedSizes(delta)
                      ELSE Styled(<<snap.size, RSub(dragStart.availableSpace, snap.size)>>)
       /\ lastSnapId' = snap.id
       /\ last' = [Op("onDrag", activeDivider.parentId, NoNode, snap # NoSnap /\ lastSnapId # snap.id)
                      EXCEPT !.snap = snap.id, !.arg = IF shiftKey THEN 1 ELSE 0]
    /\ NoSave
    /\ KeepPending
    /\ UNCHANGED <<pages, currentPageIndex, currentId, activeDivider, dragStart, pointerDown>>
    /\ KeepIndex

\* collectSquished: the ids, in the order visited, of the topmost nodes whose
\* effective share is at or below MIN_AREA_PERCENT.
RECURSIVE collectSquished(_, _)
collectSquished(node, effectivePct) ==
    IF node = NoNode THEN <<>>
    ELSE IF RLe(effectivePct, R(MIN_AREA_PERCENT)) THEN <<node.id>>
    ELSE IF node.splitState = "split" /\ Len(node.children) = 2
    THEN collectSquished(node.children[1],
             RMul(effectivePct, RDiv(OrFifty(parseFloat(node.children[1].size)), R(100))))
         \o collectSquished(node.children[2],
             RMul(effectivePct, RDiv(OrFifty(parseFloat(node.children[2].size)), R(100))))
    ELSE <<>>

\* A sweep that collects the squished nodes and deletes none of them.
deleteAllDeletesNothing(page, squished) == page

\* The deletions of the sweep, in the order of the list.
RECURSIVE deleteAll(_, _)
deleteAll(page, squished) ==
    IF squished = <<>> THEN page
    ELSE deleteAll(deleteNodeFromTree(page, Head(squished)).tree, Tail(squished))

\* The page once stopDrag has written the two sizes.
CommitSizes(page, divider, pA, pB) ==
    LET pp == findNodePath(page, divider.parentId, 0)
        parentNode == NodeAt(page, pp)
    IN  IF pp = NoPath \/ Len(parentNode.children) = 0 THEN page
        ELSE LET pathA == findNodePath(parentNode, divider.rectAId, 0)
                 withA == IF pathA = NoPath THEN parentNode
                          ELSE SetAt(parentNode, pathA, [NodeAt(parentNode, pathA) EXCEPT !.size = pA])
                 pathB == findNodePath(withA, divider.rectBId, 0)
                 withB == IF pathB = NoPath THEN withA
                          ELSE SetAt(withA, pathB, [NodeAt(withA, pathB) EXCEPT !.size = pB])
             IN  SetAt(page, pp, withB)

\* The share, in percent, of flex-grow value f in the total of the two.
Share(f, total) == RMul(RDiv(f, total), R(100))

stopDrag ==
    /\ activeDivider # NoDivider
    /\ Release
    /\ UNCHANGED probe
    /\ \E divider \in {activeDivider} :
       \E pA \in {Share(flexGrow[1], RAdd(flexGrow[1], flexGrow[2]))} :
       \E pB \in {Share(flexGrow[2], RAdd(flexGrow[1], flexGrow[2]))} :
       \E page \in {CommitSizes(getCurrentPage, divider, pA, pB)} :
       \E squished \in {collectSquished(findNodeById(page, divider.rectAId), pA)
                        \o collectSquished(findNodeById(page, divider.rectBId), pB)} :
       /\ activeDivider' = NoDivider
       /\ pointerDown' = FALSE
       /\ pages' = WithPage(deleteAll(page, squished))
       /\ NoSave
       /\ KeepPending
       /\ UNCHANGED <<currentPageIndex, currentId, dragStart, flexGrow, lastSnapId>>
       /\ IF squished # <<>> THEN Renders ELSE UNCHANGED nodeMap /\ invalidateLayoutCache
       /\ last' = [Op("stopDrag", divider.parentId, findNodeById(page, divider.parentId),
                      squished # <<>>) EXCEPT !.arg = divider.rectAId]

\* touchcancel, or the loss of the pointer, during a drag session: the
\* session's listeners are mousemove, mouseup, touchmove and touchend, so no
\* handler runs.
touchCancel ==
    /\ activeDivider # NoDivider
    /\ pointerDown
    /\ Tick
    /\ UNCHANGED probe
    /\ pointerDown' = FALSE
    /\ NoSave
    /\ KeepPending
    /\ UNCHANGED <<pages, currentPageIndex, currentId, activeDivider, dragStart, flexGrow, lastSnapId>>
    /\ KeepIndex
    /\ last' = Op("touchCancel", activeDivider.parentId, NoNode, FALSE)

Edges == {"left", "right", "top", "bottom"}

Directions == {"ArrowUp", "ArrowDown", "ArrowLeft", "ArrowRight"}

-----------------------------------------------------------------------------
(* Pages (state.js) and their handlers (pages.js) *)

\* addPage: the document afterwards.
addPage ==
    [pages |-> Append(pages, Leaf(currentId + 1, 0, 0, "none", NoSize)),
     currentPageIndex |-> Len(pages),
     currentId |-> currentId + 1]

\* The document as it is.
Document == [pages |-> pages, currentPageIndex |-> currentPageIndex, currentId |-> currentId]

\* list.splice(index, 1): a negative index counts from the end, and an index
\* past the end removes nothing.
SpliceOne(list, index) ==
    LET start == IF index < 0 THEN (IF Len(list) + index < 0 THEN 0 ELSE Len(list) + index)
                 ELSE index
    IN  IF start >= Len(list) THEN list
        ELSE [i \in 1..(Len(list) - 1) |-> IF i <= start THEN list[i] ELSE list[i + 1]]

\* A deletePage that splices whatever the number of pages.
deletePageRemovesLast(index) ==
    LET spliced == SpliceOne(pages, index)
    IN  [pages |-> spliced,
         currentPageIndex |-> IF currentPageIndex >= Len(spliced) THEN Len(spliced) - 1
                              ELSE currentPageIndex,
         currentId |-> currentId]

\* deletePage(index): nothing with a single page; otherwise the splice, and
\* the active index is pulled back into the list.
deletePage(index) ==
    LET spliced == SpliceOne(pages, index)
    IN  IF Len(pages) <= 1 THEN Document
        ELSE [pages |-> spliced,
              currentPageIndex |-> IF currentPageIndex >= Len(spliced) THEN Len(spliced) - 1
                                   ELSE currentPageIndex,
              currentId |-> currentId]

\* A clone whose ids are left as they were.
updateIdsKeepsIds(node, counter) == node

\* updateIds: every node of the clone takes the next id, parents before
\* children and first children before second ones.
RECURSIVE updateIds(_, _)
updateIds(node, counter) ==
    IF Len(node.children) = 0 THEN [node EXCEPT !.id = counter + 1]
    ELSE LET a == updateIds(node.children[1], counter + 1)
             b == updateIds(node.children[2], counter + 1 + NodeCount(node.children[1]))
         IN  [node EXCEPT !.id = counter + 1, !.children = <<a, b>>]

\* duplicatePage(index): nothing unless index is a page of the document.
duplicatePage(index) ==
    LET clonedPage == updateIds(pages[index + 1], currentId)
    IN  IF index < 0 \/ index >= Len(pages) THEN Document
        ELSE [pages |-> [i \in 1..(Len(pages) + 1) |->
                             IF i <= index + 1 THEN pages[i]
                             ELSE IF i = index + 2 THEN clonedPage
                             ELSE pages[i - 1]],
              currentPageIndex |-> index + 1,
              currentId |-> currentId + NodeCount(pages[index + 1])]

\* reorderPage without the adjustment of currentPageIndex.
reorderPageKeepsIndex(fromIndex, toIndex) ==
    LET removed == [i \in 1..(Len(pages) - 1) |-> IF i <= fromIndex THEN pages[i] ELSE pages[i + 1]]
        moved == [i \in 1..Len(pages) |->
                      IF i <= toIndex THEN removed[i]
                      ELSE IF i = toIndex + 1 THEN pages[fromIndex + 1]
                      ELSE removed[i - 1]]
    IN  IF \/ fromIndex = toIndex
           \/ fromIndex < 0 \/ fromIndex >= Len(pages)
           \/ toIndex < 0 \/ toIndex >= Len(pages)
        THEN Document
        ELSE [pages |-> moved,
              currentPageIndex |-> currentPageIndex,
              currentId |-> currentId]

\* reorderPage(fromIndex, toIndex): nothing unless the two are different
\* pages of the document.
reorderPage(fromIndex, toIndex) ==
    LET removed == [i \in 1..(Len(pages) - 1) |-> IF i <= fromIndex THEN pages[i] ELSE pages[i + 1]]
        moved == [i \in 1..Len(pages) |->
                      IF i <= toIndex THEN removed[i]
                      ELSE IF i = toIndex + 1 THEN pages[fromIndex + 1]
                      ELSE removed[i - 1]]
    IN  IF \/ fromIndex = toIndex
           \/ fromIndex < 0 \/ fromIndex >= Len(pages)
           \/ toIndex < 0 \/ toIndex >= Len(pages)
        THEN Document
        ELSE [pages |-> moved,
              currentPageIndex |->
                  IF currentPageIndex = fromIndex THEN toIndex
                  ELSE IF fromIndex < currentPageIndex /\ toIndex >= currentPageIndex
                       THEN currentPageIndex - 1
                  ELSE IF fromIndex > currentPageIndex /\ toIndex <= currentPageIndex
                       THEN currentPageIndex + 1
                  ELSE currentPageIndex,
              currentId |-> currentId]

PageIndexes == 0..(Len(pages) - 1)

\* A page handler: saveState, then the page operation; the page list and the
\* paper are rendered anew.
PageHandler(op, document) ==
    /\ Tick
    /\ UNCHANGED probe
    /\ DragUnchanged
    /\ KeepPending
    /\ SaveState
    /\ Becomes(document)
    /\ Renders
    /\ last' = Op(op, 0, NoNode, FALSE)

addPageClick ==
    /\ Len(pages) < MaxPages
    /\ currentId + 1 <= MaxId
    /\ PageHandler("addPage", addPage)

deletePageClick(index) ==
    /\ Len(pages) > 1
    /\ PageHandler("deletePage", deletePage(index))

duplicatePageClick(index) ==
    /\ Len(pages) < MaxPages
    /\ currentId + NodeCount(pages[index + 1]) <= MaxId
    /\ PageHandler("duplicatePage", duplicatePage(index))

dropPage(fromIndex, toIndex) ==
    /\ fromIndex # toIndex
    /\ PageHandler("reorderPage", reorderPage(fromIndex, toIndex))

\* switchPage(index): the document afterwards; an index that is no page of
\* the document is ignored.
SwitchedTo(index) ==
    IF index >= 0 /\ index < Len(pages) THEN [Document EXCEPT !.currentPageIndex = index]
    ELSE Document

\* A click on the thumbnail of another page: switchPage.
switchPage(index) ==
    /\ currentPageIndex # index
    /\ Tick
    /\ UNCHANGED probe
    /\ DragUnchanged
    /\ KeepPending
    /\ NoSave
    /\ Becomes(SwitchedTo(index))
    /\ Renders
    /\ last' = Op("switchPage", 0, NoNode, FALSE)


-----------------------------------------------------------------------------
(* Keyboard snapping (snapping.js) *)

Undefined == NoSize

RoundTenth(v) == RDiv(RRound(RMul(v, R(10))), R(10))

\* addStandard over a set of values: those within [1, 99], rounded to 0.1.
addStandard(vals) == {RoundTenth(v) : v \in {w \in vals : RLe(R(1), w) /\ RLe(w, R(99))}}

\* addPriority over a set of values, given with two decimals already.
addPriority(vals) == {v \in vals : RLe(R(1), v) /\ RLe(v, R(99))}

MIN_JUMP == <<6, 5>>
EPSILON == <<1, 100>>

\* findNextSnapPoint: the candidate nearest to currentPct on the side the
\* direction points to, at least the list's threshold away; Undefined if none.
\* (The code scans the two lists keeping the strictly smaller distance, which
\* is the nearest value whatever the order of the lists.)
findNextSnapPoint(currentPct, candidates, priorityCandidates, direction) ==
    LET far(pt, threshold) ==
            IF IsForward(direction) THEN RLe(threshold, RSub(pt, currentPct))
            ELSE RLe(RSub(pt, currentPct), RSub(R(0), threshold))
        valid == {pt \in candidates : far(pt, MIN_JUMP)}
                 \cup {pt \in priorityCandidates : far(pt, EPSILON)}
    IN  IF valid = {} THEN Undefined
        ELSE IF IsForward(direction) THEN CHOOSE p \in valid : \A q \in valid : RLe(p, q)
        ELSE CHOOSE p \in valid : \A q \in valid : RLe(q, p)

\* minDiff before any candidate has been accepted.
Infinity == <<1, 0>>

\* A scan that accepts every candidate on the right side, whatever its distance.
RECURSIVE processCandidatesAnyDistance(_, _, _, _, _)
processCandidatesAnyDistance(list, threshold, currentPct, isForward, best) ==
    IF list = <<>> THEN best
    ELSE LET pt == Head(list)
             diff == RSub(pt, currentPct)
             absDiff == IF isForward THEN diff ELSE RNeg(diff)
             passes == IF isForward THEN RLt(R(0), diff) ELSE RLt(diff, R(0))
             closer == best.minDiff = Infinity \/ RLt(absDiff, best.minDiff)
         IN  processCandidatesAnyDistance(Tail(list), threshold, currentPct, isForward,
                 IF passes /\ closer THEN [bestPoint |-> pt, minDiff |-> absDiff] ELSE best)

\* processCandidates: the scan of one list with its threshold.  best is
\* [bestPoint, minDiff] so far; a candidate on the side the direction points
\* to, at least the threshold away, replaces bestPoint when its distance is
\* strictly smaller than minDiff.
RECURSIVE processCandidates(_, _, _, _, _)
processCandidates(list, threshold, currentPct, isForward, best) ==
    IF list = <<>> THEN best
    ELSE LET pt == Head(list)
             diff == RSub(pt, currentPct)
             absDiff == IF isForward THEN diff ELSE RNeg(diff)
             passes == IF isForward THEN RLe(threshold, diff) ELSE RLe(diff, RNeg(threshold))
             closer == best.minDiff = Infinity \/ RLt(absDiff, best.minDiff)
         IN  processCandidates(Tail(list), threshold, currentPct, isForward,
                 IF passes /\ closer THEN [bestPoint |-> pt, minDiff |-> absDiff] ELSE best)

\* A findNextSnapPoint whose priority scan starts afresh, so that a priority
\* point wins over a nearer standard point.
findNextSnapPointPriorityWins(currentPct, candidates, priorityCandidates, direction) ==
    LET standard == processCandidates(candidates, MIN_JUMP, currentPct, IsForward(direction),
                        [bestPoint |-> Undefined, minDiff |-> Infinity])
        priority == processCandidates(priorityCandidates, EPSILON, currentPct, IsForward(direction),
                        [bestPoint |-> Undefined, minDiff |-> Infinity])
    IN  IF priority.bestPoint # Undefined THEN priority.bestPoint ELSE standard.bestPoint

\* findNextSnapPoint on two lists, as the code scans them: the standard list
\* with MIN_JUMP, then the priority list with EPSILON.
findNextSnapPointOfLists(currentPct, candidates, priorityCandidates, direction) ==
    processCandidates(priorityCandidates, EPSILON, currentPct, IsForward(direction),
        processCandidates(candidates, MIN_JUMP, currentPct, IsForward(direction),
            [bestPoint |-> Undefined, minDiff |-> Infinity])).bestPoint

\* The standard candidates of snapDivider for the divider of targetParent.
standardCandidates(page, targetParent, currentPct) ==
    LET orientation == targetParent.orientation
        totalCount == countParallelLeaves(targetParent.children[1], orientation)
                      + countParallelLeaves(targetParent.children[2], orientation)
        allSizes == collectAllNodeSizes(page)
        remainingForward == RSub(R(100), currentPct)
    IN  addStandard({R(50)}
            \cup {RDiv(R(100 * i), R(totalCount)) : i \in 1..(totalCount - 1)}
            \cup allSizes
            \cup {RSub(R(100), sz) : sz \in allSizes}
            \cup (IF RLt(R(10), remainingForward)
                  THEN {RAdd(currentPct, RDiv(RMul(remainingForward, R(50)), R(100)))} ELSE {})
            \cup (IF RLt(R(10), currentPct)
                  THEN {RDiv(RMul(currentPct, R(50)), R(100))} ELSE {}))

\* The positions, in percent of the parent, of the other dividers of the same
\* orientation as the browser reports them.
OtherDividers == {{}, {R(1)}}

\* The percentage snapDivider moves the divider of targetParent to.
targetPct(page, targetParent, direction, otherDividers) ==
    LET currentPct == parseFloat(targetParent.children[1].size)
        found == findNextSnapPoint(currentPct, standardCandidates(page, targetParent, currentPct),
                                   addPriority(otherDividers), direction)
    IN  IF found # Undefined THEN found
        ELSE IF IsForward(direction) /\ RLt(currentPct, R(99)) THEN R(99)
        ELSE IF ~IsForward(direction) /\ RLt(R(1), currentPct) THEN R(1)
        ELSE Undefined

\* Alt + Arrow on the focused leaf.
snapDivider(focusedId, direction, otherDividers) ==
    /\ Tick
    /\ UNCHANGED probe
    /\ \E page \in {getCurrentPage} : \E pp \in {findDirectionalParent(page, focusedId, direction, FALSE)} :
       /\ focusedId \in LeafIds(page)
       /\ pp # NoPath
       /\ \E targetParent \in {NodeAt(page, pp)} :
           /\ IsNum(parseFloat(targetParent.children[1].size))
           /\ \E target \in {targetPct(page, targetParent, direction, otherDividers)} :
               /\ target # Undefined
               /\ DragUnchanged
               /\ KeepPending
               /\ UNCHANGED <<currentPageIndex, currentId>>
               /\ SaveState
               /\ IF RLe(target, R(MIN_AREA_PERCENT))
                  THEN /\ pages' = WithPage(deleteNodeFromTree(page, targetParent.children[1].id).tree)
                       /\ Renders
                       /\ last' = [Op("snap", targetParent.id, targetParent, TRUE)
                                       EXCEPT !.arg = targetParent.children[1].id]
                  ELSE IF RLe(RSub(R(100), target), R(MIN_AREA_PERCENT))
                  THEN /\ pages' = WithPage(deleteNodeFromTree(page, targetParent.children[2].id).tree)
                       /\ Renders
                       /\ last' = [Op("snap", targetParent.id, targetParent, TRUE)
                                       EXCEPT !.arg = targetParent.children[2].id]
                  ELSE /\ pages' = WithPage(SetAt(page, pp,
                                       [targetParent EXCEPT !.children[1].size = target,
                                                            !.children[2].size = RSub(R(100), target)]))
                       /\ Renders
                       /\ last' = Op("snap", targetParent.id, targetParent, FALSE)

-----------------------------------------------------------------------------
(* Opening a saved layout (fileIO.js) *)

\* Layout files the editor has saved: each is a document reached by splits
\* and divider drags from the initial layout.
MergeFile ==
    [pages |-> <<SplitNode(1, "vertical",
                     Leaf(2, 0, 1, "none", R(40)),
                     SplitNode(3, "vertical",
                         Leaf(4, 1, 0, "none", R(30)),
                         Leaf(5, 0, 0, "none", R(70)), R(60)),
                     NoSize)>>,
     currentPageIndex |-> 0,
     currentId |-> 5]

NestedFile ==
    [pages |-> <<SplitNode(1, "vertical",
                     SplitNode(2, "horizontal",
                         Leaf(4, 0, 0, "none", R(50)),
                         SplitNode(5, "vertical",
                             Leaf(6, 0, 0, "none", R(50)),
                             Leaf(7, 0, 0, "none", R(50)), R(50)),
                         R(50)),
                     Leaf(3, 1, 0, "none", R(50)),
                     NoSize)>>,
     currentPageIndex |-> 0,
     currentId |-> 7]

\* A layout in which a rectangle dragged down to 1.5% of its parent was split
\* afterwards: its two leaves are 0.75% of that parent each.
SqueezedFile ==
    [pages |-> <<SplitNode(1, "vertical",
                     Leaf(2, 0, 0, "none", R(50)),
                     SplitNode(3, "horizontal",
                         SplitNode(4, "vertical",
                             Leaf(6, 0, 0, "none", R(50)),
                             Leaf(7, 0, 0, "none", R(50)), <<3, 2>>),
                         Leaf(5, 0, 0, "none", <<197, 2>>),
                         R(50)),
                     NoSize)>>,
     currentPageIndex |-> 0,
     currentId |-> 7]

Files == {MergeFile, NestedFile, SqueezedFile}

MaxOpens == 1   \* layouts opened in one behaviour, each before the first edit

\* openLayout / processData: saveState, then the file's document goes live.
openLayout(data) ==
    /\ last.op \in {"none", "open"}
    /\ Len(undoStack) < MaxOpens
    /\ UNCHANGED steps
    /\ UNCHANGED probe
    /\ DragUnchanged
    /\ DetachesAll
    /\ SaveState
    /\ Becomes(data)
    /\ Renders
    /\ last' = Op("open", 0, NoNode, FALSE)

-----------------------------------------------------------------------------
(* Clipboard and content moves *)

MaxPending == 1   \* cut and paste calls suspended at the same time

hasContent(node) == node.image # 0 \/ node.text # NoText

\* Ctrl+X on the focused leaf, up to the await of clipboard.writeText: the
\* call has looked its node up and keeps the object.
cutNodeContent(nodeId) ==
    /\ Tick
    /\ UNCHANGED probe
    /\ Len(pending) < MaxPending
    /\ \E node \in {findNodeById(getCurrentPage, nodeId)} :
       /\ node # NoNode
       /\ hasContent(node)
       /\ pending' = Append(pending, [call |-> "cut", id |-> nodeId, found |-> node, held |-> TRUE])
       /\ KeepIndex
       /\ last' = Op("cutNodeContent", nodeId, node, FALSE)
    /\ NoSave
    /\ DragUnchanged
    /\ UNCHANGED <<pages, currentPageIndex, currentId>>

\* Ctrl+V on the focused leaf, up to the await of clipboard.readText.
pasteNodeContent(nodeId) ==
    /\ Tick
    /\ UNCHANGED probe
    /\ Len(pending) < MaxPending
    /\ \E node \in {findNodeById(getCurrentPage, nodeId)} :
       /\ node # NoNode
       /\ node.splitState # "split"
       /\ pending' = Append(pending, [call |-> "paste", id |-> nodeId, found |-> node, held |-> TRUE])
       /\ KeepIndex
       /\ last' = Op("pasteNodeContent", nodeId, node, FALSE)
    /\ NoSave
    /\ DragUnchanged
    /\ UNCHANGED <<pages, currentPageIndex, currentId>>

\* What the clipboard answers: the promise rejects, or the text read is empty,
\* not JSON, or a broco-content object holding an image or a text.
Clipboard == {"rejected", "empty", "raw", "image", "text"}

\* The node a suspended call holds, after the writes that follow its await.
Written(node, call, clipboard) ==
    IF call = "cut" THEN [node EXCEPT !.image = 0, !.text = NoText, !.textAlign = "none"]
    ELSE IF clipboard = "image" THEN [node EXCEPT !.image = 1, !.text = NoText, !.textAlign = "none"]
    ELSE IF clipboard = "text" THEN [node EXCEPT !.image = 0, !.text = TypedText, !.textAlign = "center"]
    ELSE [node EXCEPT !.image = 0, !.text = TypedText]

\* Whether the call goes on after its await.
Resumes(call, clipboard) ==
    IF call = "cut" THEN clipboard # "rejected" ELSE clipboard \notin {"rejected", "empty"}

\* The page list after a write to the object of this id, on whichever page it
\* is; an object that has left the document changes no page.
WriteTo(id, call, clipboard) ==
    [i \in 1..Len(pages) |->
        LET path == findNodePath(pages[i], id, 0)
        IN  IF path = NoPath THEN pages[i]
            ELSE SetAt(pages[i], path, Written(NodeAt(pages[i], path), call, clipboard))]

InDocument(id) == \E i \in 1..Len(pages) : findNodePath(pages[i], id, 0) # NoPath

\* The rest of cutNodeContent or pasteNodeContent, run when the clipboard has
\* answered the i-th suspended call.
clipboardAnswers(i, clipboard) ==
    /\ Tick
    /\ UNCHANGED probe
    /\ i \in 1..Len(pending)
    /\ \E c \in {pending[i]} :
       /\ pending' = SubSeq(pending, 1, i - 1) \o SubSeq(pending, i + 1, Len(pending))
       /\ IF Resumes(c.call, clipboard)
          THEN /\ SaveState
               /\ pages' = IF c.held THEN WriteTo(c.id, c.call, clipboard) ELSE pages
               /\ last' = [Op(c.call, c.id, findNodeInPages(c.id), c.held /\ InDocument(c.id))
                              EXCEPT !.fresh = TRUE]
          ELSE /\ NoSave
               /\ UNCHANGED pages
               /\ last' = Op(c.call, c.id, findNodeInPages(c.id), InDocument(c.id))
    /\ DragUnchanged
    /\ UNCHANGED <<currentPageIndex, currentId>>
    /\ IF Resumes(pending[i].call, clipboard) THEN Renders ELSE KeepIndex

\* swapNodesContent: image, text and textAlign change places.
swapNodesContent(page, sourceId, targetId) ==
    LET ps == findNodePath(page, sourceId, 0)
        pt == findNodePath(page, targetId, 0)
        sourceNode == NodeAt(page, ps)
        targetNode == NodeAt(page, pt)
    IN  SetAt(SetAt(page, ps, [sourceNode EXCEPT !.image = targetNode.image,
                                                  !.text = targetNode.text,
                                                  !.textAlign = targetNode.textAlign]),
              pt, [targetNode EXCEPT !.image = sourceNode.image,
                                     !.text = sourceNode.text,
                                     !.textAlign = sourceNode.textAlign])

\* Shift + Arrow on the focused leaf: moveContent swaps its content with the
\* closest rectangle's; closestId is the leaf getClosestRect finds.
moveContent(sourceId, closestId) ==
    /\ Tick
    /\ UNCHANGED probe
    /\ sourceId # closestId
    /\ findNodeById(getCurrentPage, sourceId) # NoNode
    /\ findNodeById(getCurrentPage, closestId) # NoNode
    /\ SaveState
    /\ pages' = WithPage(swapNodesContent(getCurrentPage, sourceId, closestId))
    /\ last' = [Op("moveContent", sourceId, findNodeById(getCurrentPage, sourceId), FALSE)
                   EXCEPT !.arg = closestId]
    /\ KeepPending
    /\ DragUnchanged
    /\ UNCHANGED <<currentPageIndex, currentId>>
    /\ Renders

-----------------------------------------------------------------------------
\* The layout cached bounds are read from: the tree without its content.
RECURSIVE Layout(_)
Layout(node) ==
    [node EXCEPT !.image = 0, !.text = 0, !.textAlign = "none",
                 !.children = [i \in 1..Len(node.children) |-> Layout(node.children[i])]]

\* An arrow key on the focused leaf: navigateRects asks getClosestRect, which
\* reads the bounds of the rendered leaves when none are cached and there is
\* more than one leaf; the focus moves and nothing else changes.
navigateRects ==
    /\ Tick
    /\ UNCHANGED probe
    /\ boundsCache' = IF boundsCache = NoCache /\ Cardinality(LeafIds(getCurrentPage)) > 1
                      THEN Layout(getCurrentPage)
                      ELSE boundsCache
    /\ NoSave
    /\ KeepPending
    /\ DragUnchanged
    /\ UNCHANGED <<pages, currentPageIndex, currentId, nodeMap>>
    /\ last' = Op("navigateRects", 0, NoNode, boundsCache = NoCache)

-----------------------------------------------------------------------------
(* Specifications *)

Next ==
    \/ \E rectId \in LeafIds(getCurrentPage), ctrlKey, shiftKey, altKey, defaultIsVertical \in BOOLEAN :
        handleSplitClick(rectId, ctrlKey, shiftKey, altKey, defaultIsVertical)
    \/ \E rectId \in LeafIds(getCurrentPage), initialText \in {NoText, TypedText} : createTextInRect(rectId, initialText)
    \/ \E rectId \in LeafIds(getCurrentPage), direction \in Directions : mergeNodes(rectId, direction)
    \/ \E parentId \in SplitIds(getCurrentPage), focusedId \in {0} \cup LeafIds(getCurrentPage) :
        handleDividerMerge(parentId, focusedId)
    \/ \E rectId \in LeafIds(getCurrentPage), direction \in Directions, otherDividers \in OtherDividers :
        snapDivider(rectId, direction, otherDividers)
    \/ \E parentId \in SplitIds(getCurrentPage), availableSpace \in AvailableSpaces :
        startDrag(parentId, availableSpace, <<>>)
    \/ \E edge \in Edges, availableSpace \in AvailableSpaces : startEdgeDrag(edge, availableSpace)
    \/ \E delta \in Deltas : onDrag(delta, FALSE)
    \/ stopDrag
    \/ touchCancel
    \/ addPageClick
    \/ \E index \in PageIndexes : deletePageClick(index)
    \/ \E index \in PageIndexes : duplicatePageClick(index)
    \/ \E fromIndex \in PageIndexes, toIndex \in PageIndexes : dropPage(fromIndex, toIndex)
    \/ \E index \in PageIndexes : switchPage(index)
    \/ undo
    \/ redo
    \/ \E data \in Files : openLayout(data)
    \/ \E nodeId \in LeafIds(getCurrentPage) : cutNodeContent(nodeId)
    \/ \E nodeId \in LeafIds(getCurrentPage) : pasteNodeContent(nodeId)
    \/ \E i \in 1..MaxPending, clipboard \in Clipboard : clipboardAnswers(i, clipboard)
    \/ \E sourceId \in LeafIds(getCurrentPage), closestId \in LeafIds(getCurrentPage) :
        moveContent(sourceId, closestId)

Spec == Init /\ [][Next]_vars

\* The history under longer runs of fewer handlers: typing, adding and
\* deleting pages, undo and redo.
NextHistory ==
    \/ \E rectId \in LeafIds(getCurrentPage), initialText \in {NoText, TypedText} : createTextInRect(rectId, initialText)
    \/ addPageClick
    \/ \E index \in PageIndexes : deletePageClick(index)
    \/ undo
    \/ redo

SpecHistory == InitWith(MaxHistorySteps) /\ [][NextHistory]_vars

\* Drag sessions with and without Shift held, over the pixel extents and the
\* neighbouring dividers the browser may report.
MaxShiftSteps == 6

DragSpaces == {200, 201}

\* No other divider in reach, or one that ends five pixels before the first
\* rectangle begins.
DividerCentres == {<<>>, <<R(0 - 5)>>}

NextShiftDrag ==
    \/ \E rectId \in LeafIds(getCurrentPage), defaultIsVertical \in BOOLEAN :
        handleSplitClick(rectId, FALSE, FALSE, FALSE, defaultIsVertical)
    \/ \E parentId \in SplitIds(getCurrentPage), availableSpace \in DragSpaces,
          cachedDividers \in DividerCentres :
        startDrag(parentId, availableSpace, cachedDividers)
    \/ \E delta \in Deltas, shiftKey \in BOOLEAN : onDrag(delta, shiftKey)
    \/ stopDrag

SpecShiftDrag == InitWith(MaxShiftSteps) /\ [][NextShiftDrag]_vars

\* Keyboard navigation between the handlers that change the layout.
MaxCacheSteps == 4

NextCache ==
    \/ navigateRects
    \/ \E rectId \in LeafIds(getCurrentPage), ctrlKey, defaultIsVertical \in BOOLEAN :
        handleSplitClick(rectId, ctrlKey, FALSE, FALSE, defaultIsVertical)
    \/ \E rectId \in LeafIds(getCurrentPage), direction \in Directions : mergeNodes(rectId, direction)
    \/ \E parentId \in SplitIds(getCurrentPage) : startDrag(parentId, 200, <<>>)
    \/ \E edge \in Edges : startEdgeDrag(edge, 200)
    \/ \E delta \in Deltas : onDrag(delta, FALSE)
    \/ stopDrag
    \/ addPageClick
    \/ \E index \in PageIndexes : switchPage(index)
    \/ undo
    \/ redo

SpecCache == InitWith(MaxCacheSteps) /\ [][NextCache]_vars

\* The page functions of state.js called on their own, with any index.
MaxPageCalls == 4

PageArgs == (0 - MaxPages - 1)..(MaxPages + 1)

\* One call: the function runs on the live document; nothing is saved and
\* nothing is rendered.  last.arg is the index given and last.flag tells that
\* the call left the document as it was.
PageCall(op, index, document) ==
    /\ Tick
    /\ UNCHANGED probe
    /\ DragUnchanged
    /\ KeepPending
    /\ NoSave
    /\ Becomes(document)
    /\ KeepIndex
    /\ last' = [Op(op, 0, NoNode, FALSE) EXCEPT !.arg = index, !.flag = (document = Document)]

NextPages ==
    \/ Len(pages) < MaxPages /\ currentId + 1 <= MaxId /\ PageCall("addPage", 0, addPage)
    \/ \E index \in PageArgs : PageCall("switchPage", index, SwitchedTo(index))
    \/ \E index \in PageArgs : PageCall("deletePage", index, deletePage(index))
    \/ \E index \in PageArgs :
          /\ Len(pages) < MaxPages
          /\ index \in PageIndexes => currentId + NodeCount(pages[index + 1]) <= MaxId
          /\ PageCall("duplicatePage", index, duplicatePage(index))
    \/ \E fromIndex \in PageArgs, toIndex \in PageArgs :
          PageCall("reorderPage", fromIndex, reorderPage(fromIndex, toIndex))

SpecPages == InitWith(MaxPageCalls) /\ [][NextPages]_vars

\* findNextSnapPoint called on its own, on every pair of lists of at most
\* MaxCandidates points.
MaxCandidates == 2

CurrentPcts == {R(50)}

\* Points on both sides of the current percentages, some nearer than the two
\* thresholds and one exactly MIN_JUMP away.
SnapPoints == {<<249, 5>>, R(50), <<2501, 50>>, <<101, 2>>, <<256, 5>>, R(60)}

RECURSIVE ListsUpTo(_, _)
ListsUpTo(S, n) ==
    IF n = 0 THEN {<<>>}
    ELSE ListsUpTo(S, n - 1) \cup {Append(l, x) : l \in {m \in ListsUpTo(S, n - 1) : Len(m) = n - 1}, x \in S}

InitSnapPoint ==
    /\ InitProgram(0)
    /\ probe \in [fn : {"findNextSnapPoint"}, done : {FALSE}, result : {Undefined},
                  currentPct : CurrentPcts, direction : Directions,
                  candidates : ListsUpTo(SnapPoints, MaxCandidates),
                  priorityCandidates : ListsUpTo(SnapPoints, MaxCandidates)]

callFindNextSnapPoint ==
    /\ probe.fn = "findNextSnapPoint"
    /\ ~probe.done
    /\ probe' = [probe EXCEPT !.done = TRUE,
                              !.result = findNextSnapPointOfLists(probe.currentPct, probe.candidates,
                                             probe.priorityCandidates, probe.direction)]
    /\ ProgramUnchanged

SpecSnapPoint == InitSnapPoint /\ [][callFindNextSnapPoint]_vars

\* Keyboard navigation (keyboard.js): getClosestRect called on its own, on
\* every layout cache of at most MaxRects leaf rectangles.
MaxRects == 3

\* Bounding boxes as getBoundingClientRect reports them, in pixels.
LeafBounds == [left : {0, 100}, top : {0, 100}, width : {100, 200}, height : {100}]

\* The center of a bounding box.
CenterOf(r) == [x |-> r.left + r.width \div 2, y |-> r.top + r.height \div 2]

\* A ranking that weights the cross-axis offset like the primary one.
RankUnweighted(direction, currentCenter, center) ==
    CASE direction = "ArrowUp" ->
            [isValid |-> center.y < currentCenter.y,
             dist |-> Abs(currentCenter.y - center.y) + Abs(currentCenter.x - center.x)]
      [] direction = "ArrowDown" ->
            [isValid |-> center.y > currentCenter.y,
             dist |-> Abs(center.y - currentCenter.y) + Abs(currentCenter.x - center.x)]
      [] direction = "ArrowLeft" ->
            [isValid |-> center.x < currentCenter.x,
             dist |-> Abs(currentCenter.x - center.x) + Abs(currentCenter.y - center.y)]
      [] OTHER ->
            [isValid |-> center.x > currentCenter.x,
             dist |-> Abs(center.x - currentCenter.x) + Abs(currentCenter.y - center.y)]

\* The switch of getClosestRect: whether a rectangle with this center is a
\* candidate for the direction, and its distance.
Rank(direction, currentCenter, center) ==
    CASE direction = "ArrowUp" ->
            [isValid |-> center.y < currentCenter.y,
             dist |-> Abs(currentCenter.y - center.y) + Abs(currentCenter.x - center.x) * 2]
      [] direction = "ArrowDown" ->
            [isValid |-> center.y > currentCenter.y,
             dist |-> Abs(center.y - currentCenter.y) + Abs(currentCenter.x - center.x) * 2]
      [] direction = "ArrowLeft" ->
            [isValid |-> center.x < currentCenter.x,
             dist |-> Abs(currentCenter.x - center.x) + Abs(currentCenter.y - center.y) * 2]
      [] OTHER ->
            [isValid |-> center.x > currentCenter.x,
             dist |-> Abs(center.x - currentCenter.x) + Abs(currentCenter.y - center.y) * 2]

\* The forEach of getClosestRect from entry i on: closest is the index of the
\* nearest candidate so far (0 for null) and minDist its distance.
RECURSIVE scanRects(_, _, _, _, _, _)
scanRects(rectBoundsCache, i, current, direction, closest, minDist) ==
    IF i > Len(rectBoundsCache) THEN closest
    ELSE IF i = current
    THEN scanRects(rectBoundsCache, i + 1, current, direction, closest, minDist)
    ELSE LET rank == Rank(direction, CenterOf(rectBoundsCache[current]), CenterOf(rectBoundsCache[i]))
         IN  IF rank.isValid /\ (closest = 0 \/ rank.dist < minDist)
             THEN scanRects(rectBoundsCache, i + 1, current, direction, i, rank.dist)
             ELSE scanRects(rectBoundsCache, i + 1, current, direction, closest, minDist)

\* getClosestRect on a cache it has just built from the unsplit rectangles.
getClosestRect(rectBoundsCache, current, direction) ==
    IF Len(rectBoundsCache) <= 1 THEN 0
    ELSE scanRects(rectBoundsCache, 1, current, direction, 0, 0)

InitClosestRect ==
    /\ InitProgram(0)
    /\ \E rects \in ListsUpTo(LeafBounds, MaxRects) \ {<<>>} :
          probe \in [fn : {"getClosestRect"}, done : {FALSE}, result : {0},
                     rects : {rects}, current : 1..Len(rects), direction : Directions]

callGetClosestRect ==
    /\ probe.fn = "getClosestRect"
    /\ ~probe.done
    /\ probe' = [probe EXCEPT !.done = TRUE,
                              !.result = getClosestRect(probe.rects, probe.current, probe.direction)]
    /\ ProgramUnchanged

SpecClosestRect == InitClosestRect /\ [][callGetClosestRect]_vars

\* The drag sessions alone.  The platform delivers mouseup or touchend for a
\* pointer that is held, so the release of a held pointer is weakly fair;
\* nothing promises an event once the pointer is cancelled.
NextDrag ==
    \/ \E rectId \in LeafIds(getCurrentPage), ctrlKey, shiftKey, altKey, defaultIsVertical \in BOOLEAN :
        handleSplitClick(rectId, ctrlKey, shiftKey, altKey, defaultIsVertical)
    \/ \E parentId \in SplitIds(getCurrentPage), availableSpace \in AvailableSpaces :
        startDrag(parentId, availableSpace, <<>>)
    \/ \E edge \in Edges, availableSpace \in AvailableSpaces : startEdgeDrag(edge, availableSpace)
    \/ \E delta \in Deltas : onDrag(delta, FALSE)
    \/ stopDrag
    \/ touchCancel

\* mouseup or touchend of the held pointer: stopDrag, the one step that sets
\* state.activeDivider to null.
ReleaseOfHeldPointer ==
    pointerDown /\ activeDivider # NoDivider /\ activeDivider' = NoDivider

SpecDrag == Init /\ [][NextDrag]_vars /\ WF_activeDivider(ReleaseOfHeldPointer)

-----------------------------------------------------------------------------
(* Properties *)

AllNodes == UNION {Nodes(pages[i]) : i \in 1..Len(pages)}

SplitNodes == {n \in AllNodes : n.splitState = "split"}

\* C1: in every reachable state the sizes of the two children of every split
\* node sum to 100.
C1_ChildSizesSumTo100 ==
    \A n \in SplitNodes :
        Len(n.children) = 2 => RAdd(n.children[1].size, n.children[2].size) = R(100)

\* C2: in every reachable state a split node has exactly two children and an
\* unsplit node has none.
C2_SplitHasTwoChildren ==
    \A n \in AllNodes :
        /\ n.splitState = "split" => Len(n.children) = 2
        /\ n.splitState = "unsplit" => Len(n.children) = 0

\* A delete, a merge or a sweep has collapsed a split node into a leaf.
C2_Witness ==
    /\ last.op \in {"delete", "merge", "stopDrag", "snap"}
    /\ last.pre.splitState = "split"
    /\ findNodeById(getCurrentPage, last.pre.id).splitState = "unsplit"

RECURSIVE SumNodeCount(_)
SumNodeCount(i) == IF i = 0 THEN 0 ELSE NodeCount(pages[i]) + SumNodeCount(i - 1)

C6_SplitMigratesContent ==
    last.op = "split" =>
        LET n == findNodeById(getCurrentPage, last.target)
            before == Last(undoStack).pages[currentPageIndex + 1]
        IN  /\ n.splitState = "split"
            /\ Len(n.children) = 2
            /\ n.image = 0
            /\ n.text = 0
            /\ n.children[1].id # n.children[2].id
            /\ \A i \in 1..2 :
                /\ n.children[i].splitState = "unsplit"
                /\ Len(n.children[i].children) = 0
                /\ n.children[i].size = R(50)
                /\ n.children[i].id \notin Ids(before)
            /\ RAdd(n.children[1].size, n.children[2].size) = R(100)
            /\ \E i \in 1..2 :
                /\ n.children[i].image = last.pre.image
                /\ n.children[i].text = last.pre.text
                /\ n.children[3 - i].image = 0
                /\ n.children[3 - i].text = 0

\* A leaf holding a text has been split.
C6_Witness ==
    /\ last.op = "split"
    /\ last.pre.text # 0
    /\ \E i \in 1..2 : findNodeById(getCurrentPage, last.target).children[i].text = last.pre.text

\* The neighbor of the merge recorded in last is split along the parent's axis.
LastMergeIsCaseA ==
    LET neighbor == IF last.flag THEN last.pre.children[2] ELSE last.pre.children[1]
    IN  neighbor.splitState = "split" /\ neighbor.orientation = last.pre.orientation

\* C7: when the neighbor is split along the parent's axis, a merge leaves the
\* parent with the expander, grown to expanderSize + neighborSize *
\* consumed.size / 100 and otherwise unchanged, and the neighbor's other
\* sub-child, sized to the rest of 100.
C7_MergeConsumesAdjacentSubChild ==
    (last.op = "merge" /\ LastMergeIsCaseA) =>
        LET expander == IF last.flag THEN last.pre.children[1] ELSE last.pre.children[2]
            neighbor == IF last.flag THEN last.pre.children[2] ELSE last.pre.children[1]
            consumed == IF last.flag THEN neighbor.children[1] ELSE neighbor.children[2]
            remaining == IF last.flag THEN neighbor.children[2] ELSE neighbor.children[1]
            newSize == RAdd(expander.size, RDiv(RMul(neighbor.size, consumed.size), R(100)))
            e2 == [expander EXCEPT !.size = newSize]
            r2 == [remaining EXCEPT !.size = RSub(R(100), newSize)]
        IN  findNodeById(getCurrentPage, last.pre.id)
                = [last.pre EXCEPT !.children = IF last.flag THEN <<e2, r2>> ELSE <<r2, e2>>]

\* C8: when the neighbor is a leaf or split across the parent's axis, a merge
\* started from inside one child leaves the parent with every field of that
\* child, but its own id and size.
C8_MergeOverwritesParent ==
    (/\ last.op = "merge"
     /\ ~LastMergeIsCaseA
     /\ last.arg \in Ids(last.pre.children[1]) \cup Ids(last.pre.children[2])) =>
        LET expander == IF last.arg \in Ids(last.pre.children[1])
                        THEN last.pre.children[1] ELSE last.pre.children[2]
        IN  findNodeById(getCurrentPage, last.pre.id)
                = [expander EXCEPT !.id = last.pre.id, !.size = last.pre.size]

\* A merge started in the second child, which holds an image, has discarded a
\* split first child.
C8_Witness ==
    /\ last.op = "merge"
    /\ ~LastMergeIsCaseA
    /\ last.arg \in Ids(last.pre.children[2])
    /\ last.pre.children[1].splitState = "split"
    /\ last.pre.children[2].image # 0
    /\ findNodeById(getCurrentPage, last.pre.id).image = last.pre.children[2].image

\* C9: deleting one of the two leaves of a split made by the handler before
\* leaves the parent a leaf with the other leaf's image, text and textAlign,
\* its id and size unchanged.
C9_DeleteAfterSplitRestoresLeaf ==
    (last.op = "delete" /\ last.fresh) =>
        LET other == IF last.pre.children[1].id = last.target
                     THEN last.pre.children[2] ELSE last.pre.children[1]
            p == findNodeById(getCurrentPage, last.pre.id)
        IN  /\ p.splitState = "unsplit"
            /\ Len(p.children) = 0
            /\ p.image = other.image
            /\ p.text = other.text
            /\ p.textAlign = other.textAlign
            /\ p.id = last.pre.id
            /\ p.size = last.pre.size

\* A leaf holding a text has been split and its empty new sibling deleted.
C9_Witness ==
    /\ last.op = "delete"
    /\ last.fresh
    /\ findNodeById(getCurrentPage, last.pre.id).text # 0
    /\ IsNum(last.pre.size)

\* Some node of the subtree has an effective area below MIN_AREA_PERCENT.
RECURSIVE HasNodeBelowMinArea(_, _)
HasNodeBelowMinArea(node, effectivePct) ==
    \/ RLt(effectivePct, R(MIN_AREA_PERCENT))
    \/ \E i \in 1..Len(node.children) :
        HasNodeBelowMinArea(node.children[i],
                            RDiv(RMul(effectivePct, node.children[i].size), R(100)))

\* C10: after stopDrag and its sweep, no node on either side of the dragged
\* divider has an effective area below MIN_AREA_PERCENT.
C10_NoNodeBelowMinAreaAfterSweep ==
    last.op = "stopDrag" =>
        LET p == findNodeById(getCurrentPage, last.target)
        IN  \A i \in 1..Len(p.children) : ~HasNodeBelowMinArea(p.children[i], p.children[i].size)


\* stopDrag is the one handler that ends a drag session.
DragEnds == activeDivider # NoDivider /\ activeDivider' = NoDivider

\* The page as stopDrag leaves it once the two sizes are written, before the sweep.
Committed ==
    LET total == RAdd(flexGrow[1], flexGrow[2])
    IN  CommitSizes(getCurrentPage, activeDivider, Share(flexGrow[1], total), Share(flexGrow[2], total))

\* The dragged parent, after the sizes are written, still has the two dragged
\* rectangles as its children, and child i was committed at or below
\* MIN_AREA_PERCENT.
SideCommittedBelow(i) ==
    LET pp == findNodePath(Committed, activeDivider.parentId, 0)
        parent == NodeAt(Committed, pp)
    IN  /\ pp # NoPath
        /\ Len(parent.children) = 2
        /\ parent.children[1].id = activeDivider.rectAId
        /\ parent.children[2].id = activeDivider.rectBId
        /\ RLe(parent.children[i].size, R(MIN_AREA_PERCENT))

\* after holds what sibling held, under the parent's id and size.
TakesPlace(after, parent, sibling) ==
    /\ after.id = parent.id
    /\ after.size = parent.size
    /\ after.splitState = sibling.splitState
    /\ after.children = sibling.children
    /\ sibling.splitState = "split" => after.orientation = sibling.orientation
    /\ sibling.splitState = "unsplit" =>
        /\ after.image = sibling.image
        /\ after.text = sibling.text
        /\ after.textAlign = sibling.textAlign

\* Every size of the subtree is a number and no node of it has an effective
\* area at or below MIN_AREA_PERCENT.
RECURSIVE SubtreeClear(_, _)
SubtreeClear(node, effectivePct) ==
    /\ IsNum(effectivePct)
    /\ ~RLe(effectivePct, R(MIN_AREA_PERCENT))
    /\ \A i \in 1..Len(node.children) :
        SubtreeClear(node.children[i], RDiv(RMul(effectivePct, node.children[i].size), R(100)))

\* C11 as claimed: when a drag ends with one side committed at or below
\* MIN_AREA_PERCENT, the sibling, whole, takes the parent's place and the rest
\* of the page is as it was.
C11_OnlyThatSideRemoved ==
    [][\A i \in 1..2 :
        (DragEnds /\ SideCommittedBelow(i)) =>
            LET pp == findNodePath(Committed, activeDivider.parentId, 0)
                parent == NodeAt(Committed, pp)
            IN  /\ TakesPlace(NodeAt(getCurrentPage', pp), parent, parent.children[3 - i])
                /\ SetAt(getCurrentPage', pp, NoNode) = SetAt(Committed, pp, NoNode)]_vars

\* C11, amended: that side's subtree is gone, the rest of the page outside the
\* dragged parent is as it was, and the sibling, whole, takes the parent's
\* place when no node of the sibling's subtree has an effective area at or
\* below MIN_AREA_PERCENT.
C11_SideRemovedSiblingSwept ==
    [][\A i \in 1..2 :
        (DragEnds /\ SideCommittedBelow(i)) =>
            LET pp == findNodePath(Committed, activeDivider.parentId, 0)
                parent == NodeAt(Committed, pp)
                sibling == parent.children[3 - i]
            IN  /\ Ids(parent.children[i]) \cap Ids(getCurrentPage') = {}
                /\ SetAt(getCurrentPage', pp, NoNode) = SetAt(Committed, pp, NoNode)
                /\ SubtreeClear(sibling, sibling.size) =>
                       TakesPlace(NodeAt(getCurrentPage', pp), parent, sibling)]_vars

\* A drag has ended with its first side at 0%: that side is gone and its split
\* sibling's children are now the parent's.
C11_Witness ==
    /\ last.op = "stopDrag"
    /\ last.flag
    /\ Len(last.pre.children) = 2
    /\ last.pre.children[1].id = last.arg
    /\ RLe(last.pre.children[1].size, R(MIN_AREA_PERCENT))
    /\ last.pre.children[2].splitState = "split"
    /\ findNodeById(getCurrentPage, last.arg) = NoNode
    /\ findNodeById(getCurrentPage, last.pre.id).children = last.pre.children[2].children

\* C12: in every reachable state, whatever splits, deletions, merges, content
\* swaps, pastes, drag clean-ups and edge drags came before, every split node
\* holds no image and no text.
C12_SplitHoldsNoContent ==
    \A n \in SplitNodes : n.image = 0 /\ n.text = NoText

\* C13: the id counter never decreases over any sequence of operations of one
\* document (a layout file that is opened starts another document), delete,
\* undo and redo included, so that no id is assigned twice.
C13_IdCounterNeverDecreases ==
    [][last'.op # "open" => currentId' >= currentId]_vars

\* The last call the history received was a saveState: no undo and no redo
\* has followed it.
SavedLast == hist.saved # <<>> /\ hist.undos = 0

\* C14: right after any saveState the redo stack is empty, and a redo that
\* follows a save with no undo in between changes nothing, whatever undos came
\* before the save.
C14_RedoAfterSaveChangesNothing ==
    [][/\ SavedLast' => redoStack' = <<>>
       /\ (SavedLast /\ last'.op = "redo")
            => UNCHANGED <<pages, currentPageIndex, currentId, undoStack, redoStack>>]_vars

\* A redo has returned at once after a save that discarded undone snapshots.
C14_Witness ==
    /\ last.op = "redo"
    /\ ~last.flag
    /\ hist.cleared > 0
    /\ redoStack = <<>>
    /\ undoStack # <<>>

\* The step is a handler's saveState.
IsSave == SavedLast' /\ hist' # hist

\* C15: after any sequence of saveState, undo and redo the undo stack holds at
\* most MAX_HISTORY snapshots, and a saveState on a full stack discards the
\* oldest snapshot.
C15_UndoStackBounded ==
    [][/\ Len(undoStack') <= MAX_HISTORY
       /\ (IsSave /\ Len(undoStack) = MAX_HISTORY)
            => undoStack' = Append(Tail(undoStack), Snapshot)]_vars

\* More than MAX_HISTORY saves in a row: the stack is full and starts at the
\* second oldest of them.
C15_Witness ==
    /\ SavedLast
    /\ Len(hist.saved) > MAX_HISTORY
    /\ Len(undoStack) = MAX_HISTORY
    /\ undoStack[1] = hist.saved[Len(hist.saved) - MAX_HISTORY + 1]
    /\ undoStack[1] # hist.saved[1]

\* C16: every drag session, started on a divider or on a paper-edge handle,
\* takes exactly one snapshot of the document at its start, before any
\* mutation, so that an undo after the drag brings back the tree and the sizes
\* from before the drag.
C16_DragStartTakesOneSnapshot ==
    [][last'.op \in {"startDrag", "startEdgeDrag"}
        => undoStack' = saveState /\ redoStack' = <<>>]_vars

\* C17: at most one drag session is active at a time: a Start that arrives
\* while a session is active begins no second session and leaves the active
\* divider, the session's start sizes and the document as they are, so that
\* every started session is ended by one End that commits its sizes.
C17_StartWhileDraggingIgnored ==
    [][(activeDivider # NoDivider /\ last'.op \in {"startDrag", "startEdgeDrag"})
        => UNCHANGED <<activeDivider, dragStart, flexGrow, pages, currentId, undoStack>>]_vars

\* C18: a drag session that is active always returns to Idle through the End
\* step: a cancellation of the drag (touch cancel, lost pointer capture) runs
\* the same End as a release, so the controller never stays Dragging with the
\* sizes uncommitted.
C18_DragReturnsToIdle ==
    (activeDivider # NoDivider) ~> (activeDivider = NoDivider)

C20_WriteFindsNodeAsLookedUp ==
    [][(last'.op \in {"cut", "paste"} /\ last'.fresh)
        => \E i \in 1..Len(pending) :
              /\ pending[i].call = last'.op
              /\ pending[i].id = last'.target
              /\ pending[i].held
              /\ findNodeById(getCurrentPage, pending[i].id) = pending[i].found]_vars

\* The handlers that mutate a tree: split, delete, merge, snap, drag end, edge
\* drag and the content edits.
TreeMutations ==
    {"split", "delete", "clear", "fit", "text", "merge", "snap", "moveContent",
     "startEdgeDrag", "stopDrag", "cut", "paste"}

\* C21: every tree mutation (split, delete, merge, snap, drag, edge drag,
\* content edit) changes only the active page: the page list keeps its length
\* and the tree of every other page is as it was.
C21_OnlyActivePageChanges ==
    [][last'.op \in TreeMutations
        => /\ Len(pages') = Len(pages)
           /\ \A i \in 1..Len(pages) : i # currentPageIndex + 1 => pages'[i] = pages[i]]_vars

\* The candidate pt of a list with this threshold qualifies: it lies strictly
\* on the side of currentPct the direction points to, at least the threshold
\* away.
Qualifies(pt, threshold) ==
    IF IsForward(probe.direction)
    THEN RLt(probe.currentPct, pt) /\ RLe(threshold, RSub(pt, probe.currentPct))
    ELSE RLt(pt, probe.currentPct) /\ RLe(threshold, RSub(probe.currentPct, pt))

Elements(list) == {list[i] : i \in 1..Len(list)}

\* The candidates of the two lists that pass the direction filter and their
\* own list's threshold.
Qualifying ==
    {pt \in Elements(probe.candidates) : Qualifies(pt, MIN_JUMP)}
    \cup {pt \in Elements(probe.priorityCandidates) : Qualifies(pt, EPSILON)}

Distance(pt) ==
    IF RLe(probe.currentPct, pt) THEN RSub(pt, probe.currentPct) ELSE RSub(probe.currentPct, pt)

FindNextSnapPointReturned == probe.fn = "findNextSnapPoint" /\ probe.done

\* C22: findNextSnapPoint returns only a candidate that lies strictly in the
\* requested direction from currentPercent, at least MIN_JUMP away if it comes
\* from the standard list or at least EPSILON away if it comes from the
\* priority list; it returns undefined when no candidate does.
C22_ReturnsQualifyingOrUndefined ==
    FindNextSnapPointReturned
        => IF Qualifying = {} THEN probe.result = Undefined ELSE probe.result \in Qualifying

\* A point nearer than MIN_JUMP was offered in the standard list and refused,
\* and a priority point was returned.
C22_Witness ==
    /\ FindNextSnapPointReturned
    /\ \E pt \in Elements(probe.candidates) :
          /\ ~Qualifies(pt, MIN_JUMP)
          /\ Qualifies(pt, EPSILON)
    /\ probe.result \in Elements(probe.priorityCandidates) \ Elements(probe.candidates)
    /\ RLt(Distance(probe.result), MIN_JUMP)

WithinSnapRange(v) == RLe(R(1), v) /\ RLe(v, R(99))

\* The snap points the drag session that has just started holds in its cache.
CachedSnapPoints ==
    calculateDynamicSnaps(getCurrentPage, findNodeById(getCurrentPage, activeDivider.parentId))

\* C24: every snap candidate offered to the selection has a value within
\* [1, 99]: the standard and priority candidates snapDivider collects for any
\* focused leaf and direction, and the cache calculateDynamicSnaps fills when a
\* drag starts.
C24_SnapCandidatesWithinRange ==
    /\ \A focusedId \in LeafIds(getCurrentPage) : \A direction \in Directions :
       \A otherDividers \in OtherDividers :
          LET pp == findDirectionalParent(getCurrentPage, focusedId, direction, FALSE)
              targetParent == NodeAt(getCurrentPage, pp)
              currentPct == parseFloat(targetParent.children[1].size)
          IN  (pp # NoPath /\ IsNum(currentPct))
                  => \A v \in standardCandidates(getCurrentPage, targetParent, currentPct)
                              \cup addPriority(otherDividers) : WithinSnapRange(v)
    /\ (last.op \in {"startDrag", "startEdgeDrag"} /\ activeDivider # NoDivider)
           => \A v \in CachedSnapPoints : WithinSnapRange(v)

\* C25: getClosestRect returns a leaf other than the current one whose center
\* is strictly past the current leaf's center along the axis of the direction
\* and whose |primary-axis offset| + 2 * |cross-axis offset| is the least among
\* all such leaves; it returns none exactly when no leaf qualifies.
C25_ClosestInDirection ==
    LET c(i) == CenterOf(probe.rects[i])
        horizontal == probe.direction \in {"ArrowLeft", "ArrowRight"}
        primary(i) == IF horizontal THEN c(i).x - c(probe.current).x ELSE c(i).y - c(probe.current).y
        cross(i) == IF horizontal THEN c(i).y - c(probe.current).y ELSE c(i).x - c(probe.current).x
        past(i) == IF IsForward(probe.direction) THEN primary(i) > 0 ELSE primary(i) < 0
        score(i) == Abs(primary(i)) + 2 * Abs(cross(i))
        qualifying == {i \in 1..Len(probe.rects) : i # probe.current /\ past(i)}
    IN  (probe.fn = "getClosestRect" /\ probe.done)
            => IF qualifying = {} THEN probe.result = 0
               ELSE /\ probe.result \in qualifying
                    /\ \A j \in qualifying : score(probe.result) <= score(j)

\* The leaf returned is farther along the axis than another qualifying leaf
\* that is off the axis: the doubled cross offset decided.
C25_Witness ==
    LET c(i) == CenterOf(probe.rects[i])
        horizontal == probe.direction \in {"ArrowLeft", "ArrowRight"}
        primary(i) == IF horizontal THEN c(i).x - c(probe.current).x ELSE c(i).y - c(probe.current).y
        cross(i) == IF horizontal THEN c(i).y - c(probe.current).y ELSE c(i).x - c(probe.current).x
    IN  /\ probe.fn = "getClosestRect" /\ probe.done
        /\ probe.result # 0
        /\ \E j \in 1..Len(probe.rects) :
              /\ j # probe.current /\ j # probe.result
              /\ primary(j) * primary(probe.result) > 0
              /\ Abs(primary(j)) + Abs(cross(j)) <= Abs(primary(probe.result)) + Abs(cross(probe.result))
              /\ Abs(primary(j)) < Abs(primary(probe.result))

\* C26: after any sequence of addPage, switchPage, deletePage, duplicatePage
\* and reorderPage calls with arbitrary indices the document has at least one
\* page and 0 <= currentPageIndex < pages.length; deletePage never removes the
\* last remaining page, and switchPage with an index that is no page of the
\* document changes nothing.
C26_PageIndexAlwaysValid ==
    /\ [](Len(pages) >= 1 /\ currentPageIndex \in 0..(Len(pages) - 1))
    /\ [][(last'.op = "deletePage" /\ Len(pages) = 1) => pages' = pages]_vars
    /\ [][(last'.op = "switchPage" /\ last'.arg \notin 0..(Len(pages) - 1))
              => UNCHANGED <<pages, currentPageIndex, currentId>>]_vars

\* deletePage(0) was called on a document of one page, which it left as it
\* was, after a switchPage or another call had been given an index out of range.
C26_Witness ==
    /\ last.op = "deletePage"
    /\ last.arg = 0
    /\ last.flag
    /\ Len(pages) = 1
    /\ steps < MaxPageCalls - 1

\* The two trees are alike in everything but the ids of their nodes.
RECURSIVE SameButIds(_, _)
SameButIds(a, b) ==
    /\ [a EXCEPT !.id = 0, !.children = <<>>] = [b EXCEPT !.id = 0, !.children = <<>>]
    /\ Len(a.children) = Len(b.children)
    /\ \A i \in 1..Len(a.children) : SameButIds(a.children[i], b.children[i])

\* The ids the document holds, with those of every snapshot of the two
\* history stacks: all of them were assigned before.
IdsAssigned ==
    LET IdsOf(document) == UNION {Ids(document[i]) : i \in 1..Len(document)}
    IN  IdsOf(pages)
        \cup UNION {IdsOf(undoStack[k].pages) : k \in 1..Len(undoStack)}
        \cup UNION {IdsOf(redoStack[k].pages) : k \in 1..Len(redoStack)}

\* C27: duplicatePage(i) inserts at position i+1 a page with the same shape,
\* sizes and content as page i, in which every node id is greater than every
\* id assigned before the call and no id occurs twice; it leaves page i and
\* the other pages as they were and makes the copy the active page.
C27_DuplicateIsFreshCopy ==
    [][\A index \in PageIndexes :
          (last'.op = "duplicatePage" /\ duplicatePageClick(index))
              => /\ Len(pages') = Len(pages) + 1
                 /\ \A i \in 1..Len(pages) : pages'[IF i <= index + 1 THEN i ELSE i + 1] = pages[i]
                 /\ SameButIds(pages'[index + 2], pages[index + 1])
                 /\ Cardinality(Ids(pages'[index + 2])) = NodeCount(pages[index + 1])
                 /\ \A id \in Ids(pages'[index + 2]) : \A before \in IdsAssigned : id > before
                 /\ currentPageIndex' = index + 1]_vars

\* C28: ending a drag never writes a NaN, a negative or a greater-than-100
\* percentage into a node's size: whatever the two flex-grow values are when
\* the drag ends, both zero included, the sizes the two dragged rectangles are
\* left with are numbers in [0, 100] that sum to 100.
C28_DragEndWritesPercentages ==
    [][DragEnds =>
          LET written == {n \in Nodes(Committed) : n.id \in {activeDivider.rectAId, activeDivider.rectBId}}
          IN  /\ \A n \in written : IsNum(n.size) /\ RLe(R(0), n.size) /\ RLe(n.size, R(100))
              /\ \A a \in written : \A b \in written : a.id # b.id => RAdd(a.size, b.size) = R(100)]_vars

C30_DeleteOfRootOrAbsentIdIsNull ==
    \A i \in 1..Len(pages) :
        \A nodeId \in {pages[i].id} \cup ((0..(MaxId + 1)) \ Ids(pages[i])) :
            deleteNodeFromTree(pages[i], nodeId) = [tree |-> pages[i], focus |-> 0]

\* Ctrl + Click on the empty root leaf of a page has called deleteNodeFromTree
\* with the root's id, on a document that holds a split page as well.
C30_Witness ==
    /\ last.op = "delete"
    /\ last.target = getCurrentPage.id
    /\ last.pre = NoNode
    /\ \E i \in 1..Len(pages) : pages[i].splitState = "split"

\* C31: undo with an empty undo stack, and redo with an empty redo stack,
\* change neither the document nor either stack, and the restore callback is
\* not run: nothing is rendered, so the id index stays as it was.
C31_EmptyStackIsNoOp ==
    [][((last'.op = "undo" /\ undoStack = <<>>) \/ (last'.op = "redo" /\ redoStack = <<>>))
          => UNCHANGED <<pages, currentPageIndex, currentId, undoStack, redoStack, nodeMap>>]_vars

\* An undo has found the undo stack empty while the redo stack held the
\* document a former undo had left.
C31_Witness ==
    /\ last.op = "undo"
    /\ ~last.flag
    /\ undoStack = <<>>
    /\ redoStack # <<>>
    /\ redoStack[1] # Snapshot


HasOtherDivider(page, focusedId, direction) ==
    \E n \in Nodes(page) :
        /\ n.splitState = "split"
        /\ n.orientation = OrientationOf(direction)
        /\ n.id # NodeAt(page, findDirectionalParent(page, focusedId, direction, FALSE)).id

\* C33: an Alt + Arrow snapDivider that changes the tree moves the divider of
\* the nearest qualifying ancestor towards the side away from the focused
\* leaf, so that the side holding the focused leaf strictly grows: either the
\* two sizes it writes are both above MIN_AREA_PERCENT and sum to 100, or it
\* deletes the opposite side; the side holding the focused leaf is neither
\* shrunk nor deleted.
C33_SnapGrowsFocusedSide ==
    [][\A focusedId \in LeafIds(getCurrentPage), direction \in Directions, otherDividers \in OtherDividers :
          (/\ snapDivider(focusedId, direction, otherDividers)
           /\ otherDividers # {} => HasOtherDivider(getCurrentPage, focusedId, direction)) =>
              LET page == getCurrentPage
                  pp == findDirectionalParent(page, focusedId, direction, FALSE)
                  targetParent == NodeAt(page, pp)
                  mine == IF IsForward(direction) THEN 1 ELSE 2
                  currentPct == parseFloat(targetParent.children[1].size)
                  after == NodeAt(getCurrentPage', pp)
              IN  IF last'.flag
                  THEN /\ last'.arg = targetParent.children[3 - mine].id
                       /\ after = Collapsed(targetParent, targetParent.children[mine])
                  ELSE /\ after.id = targetParent.id
                       /\ Len(after.children) = 2
                       /\ LET sizeA == parseFloat(after.children[1].size)
                              sizeB == parseFloat(after.children[2].size)
                          IN  /\ IsNum(sizeA) /\ IsNum(sizeB)
                              /\ RLt(R(MIN_AREA_PERCENT), sizeA)
                              /\ RLt(R(MIN_AREA_PERCENT), sizeB)
                              /\ RAdd(sizeA, sizeB) = R(100)
                              /\ IF mine = 1 THEN RLt(currentPct, sizeA) ELSE RLt(sizeA, currentPct)]_vars

\* C34: the node a merge returns for focus restoration is a node of the tree
\* as the merge leaves it (the initiator's node when the merged parent still
\* holds it, otherwise the expander or the parent), never an object the merge
\* has detached: its id is an id of the active page afterwards.
C34_MergeReturnsNodeOfTree ==
    [][last'.op = "merge" =>
          LET merged == mergeNodesInTree(last'.pre, last'.arg, last'.pre.id = getCurrentPage.id)
          IN  /\ merged.live
              /\ merged.focus \in Ids(getCurrentPage')]_vars

\* C35: after every drag move, with or without Shift snapping, the two sides'
\* pixel sizes are numbers not below 0 whose sum is the available space the
\* session captured when it started.
C35_DragMoveKeepsAvailableSpace ==
    [][last'.op = "onDrag" =>
          /\ IsNum(flexGrow'[1]) /\ IsNum(flexGrow'[2])
          /\ RLe(R(0), flexGrow'[1]) /\ RLe(R(0), flexGrow'[2])
          /\ RAdd(flexGrow'[1], flexGrow'[2]) = dragStart.availableSpace]_vars

\* C36: a drag move with Shift held raises the snap toast exactly when it
\* snaps to a snap point other than the one the previous move of the same
\* session had snapped to; the first snap of a session always raises it, and
\* a move that stays on the same snap point raises none.
C36_ToastOnNewSnapOnly ==
    [][(last'.op = "onDrag" /\ last.op \in {"onDrag", "startDrag", "startEdgeDrag"}) =>
          (last'.flag <=>
              /\ last'.snap # NoSnapId
              /\ last'.snap # (IF last.op = "onDrag" THEN last.snap ELSE NoSnapId))]_vars

\* The page the active page was when the snapshot on top of the undo stack
\* was taken.
PageBeforeDrag == Last(undoStack).pages[currentPageIndex + 1]

\* The active page is the saved page wrapped by startEdgeDrag at this edge,
\* its divider is being dragged, and the share of the new rectangle is at or
\* below MIN_AREA_PERCENT.
EdgeDragAtRest(edge) ==
    LET new == IF edge \in {"left", "top"} THEN 1 ELSE 2
    IN  /\ activeDivider # NoDivider
        /\ activeDivider.parentId = getCurrentPage.id
        /\ undoStack # <<>>
        /\ Len(Last(undoStack).pages) > currentPageIndex
        /\ getCurrentPage.splitState = "split"
        /\ getCurrentPage = EdgeRoot(PageBeforeDrag, edge, getCurrentPage.id,
                                     getCurrentPage.children[new].id)
        /\ RLe(Share(flexGrow[new], RAdd(flexGrow[1], flexGrow[2])), R(MIN_AREA_PERCENT))

C38_SkippedRootDeleteChangesNothing ==
    [][(last'.op = "delete" /\ last'.target = getCurrentPage.id)
          => UNCHANGED <<pages, currentPageIndex, currentId, undoStack, redoStack>>]_vars

\* C39: deletePage(i) for a page i other than the active one leaves the same
\* page active: getCurrentPage() returns the same root before and after the
\* call, whatever i and currentPageIndex are.
C39_DeleteOtherPageKeepsActive ==
    [][(/\ last'.op = "deletePage"
        /\ last'.arg \in 0..(Len(pages) - 1)
        /\ last'.arg # currentPageIndex)
          => getCurrentPage' = getCurrentPage]_vars

\* C40: reorderPage never changes which page is active: whatever the two
\* indexes and the active page, getCurrentPage() returns the same root before
\* and after the call, and the document holds the same pages, each once, in
\* a possibly different order.
C40_ReorderKeepsActivePage ==
    [][last'.op = "reorderPage" =>
          /\ getCurrentPage' = getCurrentPage
          /\ Len(pages') = Len(pages)
          /\ \A page \in {pages[i] : i \in 1..Len(pages)} :
                Cardinality({i \in 1..Len(pages') : pages'[i] = page})
                    = Cardinality({i \in 1..Len(pages) : pages[i] = page})]_vars

\* The first of three pages was moved behind the active one, whose index
\* was lowered to follow it.
C40_Witness ==
    /\ last.op = "reorderPage"
    /\ ~last.flag
    /\ last.arg = 0
    /\ Len(pages) = 3
    /\ currentPageIndex = 0

=============================================================================
